---------------------------- MODULE Spec2Model ----------------------------
(***************************************************************************)
(* Model of the sharknado document store: the storage engine (Index and    *)
(* write-ahead log, src/src/engine.rs and src/src/logs.rs), the session    *)
(* protocol (src/src/connection.rs), the authenticated-connection table    *)
(* (src/src/user_manager.rs) and the accept loop (src/src/main.rs).        *)
(*                                                                         *)
(* Text is modelled as sequences of one-character strings, so that         *)
(* splitting, trimming, serialising and parsing are computed as the code   *)
(* computes them.                                                          *)
(***************************************************************************)
EXTENDS Integers, Sequences, FiniteSets, TLC

(***************************************************************************)
(* Text helpers (Rust str methods used by the code).                       *)
(***************************************************************************)

\* The characters of the model, in byte order (the order of BTreeMap keys).
Alphabet ==
  << "\n", " ", "!", "\"", ",", "0", "1", "2", "3", "4", "5", "6", "7", "8",
     "9", ":", "<", "=", ">", "A", "D", "E", "G", "I", "L", "N", "O", "S", "T", "U",
     "[", "]", "a", "b", "c", "d", "e", "f", "g", "i", "j", "k", "l", "m",
     "n", "o", "p", "q", "r", "s", "t", "u", "v", "w", "x", "y",
     "{", "|", "}" >>

Ord(c) == CHOOSE i \in 1..Len(Alphabet) : Alphabet[i] = c

Digits == <<"0", "1", "2", "3", "4", "5", "6", "7", "8", "9">>

IsDigit(c) == \E i \in 1..10 : Digits[i] = c

DigitVal(c) == (CHOOSE i \in 1..10 : Digits[i] = c) - 1

\* char::is_whitespace, for the characters of the model
IsWhitespace(c) == c \in {" ", "\n"}

\* char::to_lowercase, for the upper-case letters of the model
LowerChar(c) ==
  CASE c = "A" -> "a" [] c = "D" -> "d" [] c = "E" -> "e" [] c = "G" -> "g"
    [] c = "I" -> "i" [] c = "L" -> "l" [] c = "N" -> "n" [] c = "O" -> "o"
    [] c = "S" -> "s" [] c = "T" -> "t" [] c = "U" -> "u" [] c = "X" -> "x"
    [] OTHER -> c

\* A variant of to_lowercase that keeps the letter case.
KeepCase(s) == s

to_lowercase(s) == [i \in 1..Len(s) |-> LowerChar(s[i])]

RECURSIVE TrimStart(_)
TrimStart(s) ==
  IF s # <<>> /\ IsWhitespace(Head(s)) THEN TrimStart(Tail(s)) ELSE s

RECURSIVE TrimEnd(_)
TrimEnd(s) ==
  IF s # <<>> /\ IsWhitespace(s[Len(s)])
  THEN TrimEnd(SubSeq(s, 1, Len(s) - 1)) ELSE s

\* str::trim
trim(s) == TrimEnd(TrimStart(s))

\* str::split(ch): every separator ends a part; "" splits into one empty part
RECURSIVE SplitFrom(_, _, _, _)
SplitFrom(s, ch, i, cur) ==
  IF i > Len(s) THEN <<cur>>
  ELSE IF s[i] = ch THEN <<cur>> \o SplitFrom(s, ch, i + 1, <<>>)
  ELSE SplitFrom(s, ch, i + 1, Append(cur, s[i]))

split(s, ch) == SplitFrom(s, ch, 1, <<>>)

\* str::splitn(n, ch): at most n parts, the last one is the rest of the text;
\* an empty text still yields one (empty) part
RECURSIVE SplitNFrom(_, _, _, _, _)
SplitNFrom(s, n, ch, i, cur) ==
  IF n = 1 THEN <<SubSeq(s, i, Len(s))>>
  ELSE IF i > Len(s) THEN <<cur>>
  ELSE IF s[i] = ch
       THEN <<cur>> \o SplitNFrom(s, n - 1, ch, i + 1, <<>>)
  ELSE SplitNFrom(s, n, ch, i + 1, Append(cur, s[i]))

splitn(s, n, ch) == SplitNFrom(s, n, ch, 1, <<>>)

\* slice::join(sep)
RECURSIVE join(_, _)
join(parts, sep) ==
  IF parts = <<>> THEN <<>>
  ELSE IF Len(parts) = 1 THEN parts[1]
  ELSE parts[1] \o sep \o join(Tail(parts), sep)

\* position of the first occurrence of the text pat in s at or after i;
\* 0 when there is none
RECURSIVE FindStr(_, _, _)
FindStr(s, pat, i) ==
  IF i + Len(pat) - 1 > Len(s) THEN 0
  ELSE IF SubSeq(s, i, i + Len(pat) - 1) = pat THEN i
  ELSE FindStr(s, pat, i + 1)

\* str::contains(&str)
contains(s, pat) == FindStr(s, pat, 1) # 0

\* str::split(&str), for a pattern that is not empty
RECURSIVE split_str(_, _)
split_str(s, pat) ==
  LET i == FindStr(s, pat, 1) IN
  IF i = 0 THEN <<s>>
  ELSE <<SubSeq(s, 1, i - 1)>>
         \o split_str(SubSeq(s, i + Len(pat), Len(s)), pat)

\* str::splitn(2, &str)
splitn2_str(s, pat) ==
  LET i == FindStr(s, pat, 1) IN
  IF i = 0 THEN <<s>>
  ELSE <<SubSeq(s, 1, i - 1), SubSeq(s, i + Len(pat), Len(s))>>

\* str::trim_matches(ch)
RECURSIVE trim_matches(_, _)
trim_matches(s, ch) ==
  IF s # <<>> /\ Head(s) = ch THEN trim_matches(Tail(s), ch)
  ELSE IF s # <<>> /\ s[Len(s)] = ch
       THEN trim_matches(SubSeq(s, 1, Len(s) - 1), ch)
  ELSE s

starts_with(s, ch) == s # <<>> /\ Head(s) = ch
ends_with(s, ch) == s # <<>> /\ s[Len(s)] = ch

\* byte-wise lexicographic order of two texts
RECURSIVE StrLess(_, _)
StrLess(a, b) ==
  IF b = <<>> THEN FALSE
  ELSE IF a = <<>> THEN TRUE
  ELSE IF Head(a) = Head(b) THEN StrLess(Tail(a), Tail(b))
  ELSE Ord(Head(a)) < Ord(Head(b))

\* the texts of a finite set in ascending order
RECURSIVE SortedStrs(_)
SortedStrs(S) ==
  IF S = {} THEN <<>>
  ELSE LET m == CHOOSE x \in S : \A y \in S \ {x} : StrLess(x, y)
       IN  <<m>> \o SortedStrs(S \ {m})

(***************************************************************************)
(* serde_json::Value.  A value is a tuple whose first element is its tag:  *)
(*   <<"null">>, <<"bool", b>>, <<"num", "PosInt", n>>, <<"str", text>>,   *)
(*   <<"num", "Float", n>>, <<"arr", <<v1, ..>>>>,                         *)
(*   <<"obj", [key text |-> value]>>                                       *)
(* so that TLA+ equality is serde_json's structural equality (an object is *)
(* a map, the order of its members is not part of the value; a number      *)
(* parsed as an integer and a number held as a float are different         *)
(* values, as for serde_json's Number).  The numbers of the model are the  *)
(* naturals; its texts have no sign, no fraction, no exponent and no       *)
(* escape sequence, so a document never holds a float.                     *)
(***************************************************************************)
JNull == <<"null">>
JBool(b) == <<"bool", b>>
JPosInt(n) == <<"num", "PosInt", n>>
JFloat(n) == <<"num", "Float", n>>
JStr(s) == <<"str", s>>
JArr(vs) == <<"arr", vs>>
JObj(f) == <<"obj", f>>

EmptyMap == [x \in {} |-> x]

\* map with key k set to v (HashMap::insert / BTreeMap::insert)
MapInsert(m, k, v) ==
  [x \in DOMAIN m \cup {k} |-> IF x = k THEN v ELSE m[x]]

\* map without key k (HashMap::remove)
MapRemove(m, k) == [x \in DOMAIN m \ {k} |-> m[x]]

\* decimal text of a natural number
RECURSIVE NumToStr(_)
NumToStr(n) ==
  IF n < 10 THEN <<Digits[n + 1]>>
  ELSE NumToStr(n \div 10) \o <<Digits[(n % 10) + 1]>>

\* Value::to_string: the compact serialisation, object members in key order
RECURSIVE to_string(_)
RECURSIVE ArrToStr(_)
RECURSIVE ObjToStr(_, _)
to_string(v) ==
  CASE v[1] = "null" -> <<"n", "u", "l", "l">>
    [] v[1] = "bool" -> IF v[2] THEN <<"t", "r", "u", "e">>
                        ELSE <<"f", "a", "l", "s", "e">>
    [] v[1] = "num"  -> IF v[2] = "Float" THEN NumToStr(v[3]) \o <<".", "0">>
                        ELSE NumToStr(v[3])
    [] v[1] = "str"  -> <<"\"">> \o v[2] \o <<"\"">>
    [] v[1] = "arr"  -> <<"[">> \o ArrToStr(v[2]) \o <<"]">>
    [] v[1] = "obj"  -> <<"{">> \o ObjToStr(v[2], SortedStrs(DOMAIN v[2]))
                        \o <<"}">>

ArrToStr(vs) ==
  IF vs = <<>> THEN <<>>
  ELSE IF Len(vs) = 1 THEN to_string(vs[1])
  ELSE to_string(vs[1]) \o <<",">> \o ArrToStr(Tail(vs))

ObjToStr(f, keys) ==
  IF keys = <<>> THEN <<>>
  ELSE LET m == <<"\"">> \o keys[1] \o <<"\"", ":">> \o to_string(f[keys[1]])
       IN  IF Len(keys) = 1 THEN m
           ELSE m \o <<",">> \o ObjToStr(f, Tail(keys))

\* Result of a parsing step: ok, the value, the position after it
POk(v, p) == [ok |-> TRUE, val |-> v, pos |-> p]
PErr == [ok |-> FALSE, val |-> JNull, pos |-> 0]

RECURSIVE SkipWs(_, _)
SkipWs(s, i) ==
  IF i <= Len(s) /\ IsWhitespace(s[i]) THEN SkipWs(s, i + 1) ELSE i

\* s has the text w at position i
HasAt(s, i, w) ==
  /\ i + Len(w) - 1 <= Len(s)
  /\ SubSeq(s, i, i + Len(w) - 1) = w

\* position of the closing quote of a string whose content starts at i
\* (0 when there is none); the model has no escape sequences
RECURSIVE CloseQuote(_, _)
CloseQuote(s, i) ==
  IF i > Len(s) THEN 0
  ELSE IF s[i] = "\"" THEN i
  ELSE CloseQuote(s, i + 1)

RECURSIVE DigitsEnd(_, _)
DigitsEnd(s, i) ==
  IF i <= Len(s) /\ IsDigit(s[i]) THEN DigitsEnd(s, i + 1) ELSE i

RECURSIVE StrToNum(_)
StrToNum(d) ==
  IF d = <<>> THEN 0
  ELSE StrToNum(SubSeq(d, 1, Len(d) - 1)) * 10 + DigitVal(d[Len(d)])

\* serde_json's parser for the JSON subset of the model: null, true, false,
\* unsigned integers, strings without escapes, arrays and objects
RECURSIVE ParseValue(_, _)
RECURSIVE ParseElems(_, _, _)
RECURSIVE ParseMembers(_, _, _)
ParseValue(s, i0) ==
  LET i == SkipWs(s, i0) IN
  IF i > Len(s) THEN PErr
  ELSE CASE s[i] = "n" ->
              IF HasAt(s, i, <<"n", "u", "l", "l">>)
              THEN POk(JNull, i + 4) ELSE PErr
         [] s[i] = "t" ->
              IF HasAt(s, i, <<"t", "r", "u", "e">>)
              THEN POk(JBool(TRUE), i + 4) ELSE PErr
         [] s[i] = "f" ->
              IF HasAt(s, i, <<"f", "a", "l", "s", "e">>)
              THEN POk(JBool(FALSE), i + 5) ELSE PErr
         [] s[i] = "\"" ->
              LET q == CloseQuote(s, i + 1) IN
              IF q = 0 THEN PErr
              ELSE POk(JStr(SubSeq(s, i + 1, q - 1)), q + 1)
         [] IsDigit(s[i]) ->
              LET e == DigitsEnd(s, i) IN
              \* a leading zero must stand alone
              IF s[i] = "0" /\ e > i + 1 THEN PErr
              ELSE POk(JPosInt(StrToNum(SubSeq(s, i, e - 1))), e)
         [] s[i] = "[" ->
              LET j == SkipWs(s, i + 1) IN
              IF j <= Len(s) /\ s[j] = "]" THEN POk(JArr(<<>>), j + 1)
              ELSE ParseElems(s, i + 1, <<>>)
         [] s[i] = "{" ->
              LET j == SkipWs(s, i + 1) IN
              IF j <= Len(s) /\ s[j] = "}" THEN POk(JObj(EmptyMap), j + 1)
              ELSE ParseMembers(s, i + 1, EmptyMap)
         [] OTHER -> PErr

\* the elements of an array after "[" or ",", up to and including "]"
ParseElems(s, i, acc) ==
  LET r == ParseValue(s, i) IN
  IF ~r.ok THEN PErr
  ELSE LET j == SkipWs(s, r.pos) IN
       IF j > Len(s) THEN PErr
       ELSE IF s[j] = "," THEN ParseElems(s, j + 1, Append(acc, r.val))
       ELSE IF s[j] = "]" THEN POk(JArr(Append(acc, r.val)), j + 1)
       ELSE PErr

\* the members of an object after "{" or ",", up to and including "}";
\* a repeated key keeps its last value
ParseMembers(s, i, acc) ==
  LET k == SkipWs(s, i) IN
  IF k > Len(s) \/ s[k] # "\"" THEN PErr
  ELSE LET q == CloseQuote(s, k + 1) IN
       IF q = 0 THEN PErr
       ELSE LET c == SkipWs(s, q + 1) IN
            IF c > Len(s) \/ s[c] # ":" THEN PErr
            ELSE LET r == ParseValue(s, c + 1) IN
                 IF ~r.ok THEN PErr
                 ELSE LET j == SkipWs(s, r.pos)
                          m == MapInsert(acc, SubSeq(s, k + 1, q - 1), r.val)
                      IN  IF j > Len(s) THEN PErr
                          ELSE IF s[j] = "," THEN ParseMembers(s, j + 1, m)
                          ELSE IF s[j] = "}" THEN POk(JObj(m), j + 1)
                          ELSE PErr

\* serde_json::from_str: one value, then only whitespace
from_str(s) ==
  LET r == ParseValue(s, 1) IN
  IF r.ok /\ SkipWs(s, r.pos) > Len(s) THEN [ok |-> TRUE, val |-> r.val]
  ELSE [ok |-> FALSE, val |-> JNull]


(***************************************************************************)
(* Bounds and the inputs the clients draw from.                            *)
(***************************************************************************)

\* largest number of records the log file grows to
MaxWal == 2

\* largest number of connections the clients open, all addresses together
MaxConnects == 2

\* largest number of lines of a log file found at startup
MaxFileLines == 3

\* peer addresses; the connection id is the peer address
\* (connection.rs:376-379)
Addrs == {"a1", "a2"}

\* the addresses are interchangeable: the first connection comes from this one
FirstAddr == "a1"

\* no connection / no value
NoConn == "none"

Tables == { <<"t">> }
Keys == { <<"k">>, <<"j">> }

(***************************************************************************)
(* Write-ahead log (src/src/logs.rs) and Index (src/src/engine.rs).        *)
(***************************************************************************)

\* LogEntry::new: the record handed to log_entry; value is Option<String>
LogEntry(operation, table, key, value) ==
  [operation |-> operation, table |-> table, key |-> key, value |-> value]

Some(x) == [some |-> TRUE, val |-> x]
NoneStr == [some |-> FALSE, val |-> <<>>]
NoneVal == [some |-> FALSE, val |-> JNull]

\* the line log_entry formats: "{}|{}|{}|{}\n", an absent value is empty
entry_str(entry) ==
  entry.operation \o <<"|">> \o entry.table \o <<"|">> \o entry.key
    \o <<"|">> \o (IF entry.value.some THEN entry.value.val ELSE <<>>)
    \o <<"\n">>

\* log_entry on a file opened without append(true): the line replaces the
\* content
LogEntryOverwrite(file, entry) == entry_str(entry)

\* log_entry: the file after the line has been appended
log_entry(file, entry) == file \o entry_str(entry)

\* BufRead::lines: the text between line feeds; a final line feed does not
\* start another line
lines(file) ==
  LET parts == split(file, "\n") IN
  IF parts[Len(parts)] = <<>> THEN SubSeq(parts, 1, Len(parts) - 1)
  ELSE parts

OpAdd == <<"a", "d", "d">>
OpUpdate == <<"u", "p", "d", "a", "t", "e">>
OpRemove == <<"r", "e", "m", "o", "v", "e">>

\* HashMap<String, HashMap<String, Value>> as a function of functions.
\* index.entry(table).or_insert_with(HashMap::new)
EntryOrInsert(idx, table) ==
  IF table \in DOMAIN idx THEN idx ELSE MapInsert(idx, table, EmptyMap)

\* A variant of the upsert that keeps the document a key already has.
IndexUpsertKeepFirst(idx, table, key, values) ==
  LET i == EntryOrInsert(idx, table) IN
  IF key \in DOMAIN i[table] THEN i
  ELSE MapInsert(i, table, MapInsert(i[table], key, values))

\* add_row / update_row, lines 53-55 and 189-191: the upsert into the Index
IndexUpsert(idx, table, key, values) ==
  LET i == EntryOrInsert(idx, table) IN
  MapInsert(i, table, MapInsert(i[table], key, values))

\* remove_row that clears the table of the key
IndexRemoveClearsTable(idx, table, key) ==
  IF table \in DOMAIN idx THEN MapInsert(idx, table, EmptyMap) ELSE idx

\* remove_row, lines 173-176: remove the key when the table exists
IndexRemove(idx, table, key) ==
  IF table \in DOMAIN idx
  THEN MapInsert(idx, table, MapRemove(idx[table], key))
  ELSE idx

\* get_row: index.get(&table)?.get(&key).cloned()
get_row(idx, table, key) ==
  IF table \in DOMAIN idx /\ key \in DOMAIN idx[table]
  THEN [some |-> TRUE, val |-> idx[table][key]]
  ELSE NoneVal

\* A variant of the replay of one line in which an add or update does not
\* replace the document a key already has.
ReplayLineKeepFirst(idx, line) ==
  LET parts == split(line, "|") IN
  IF Len(parts) >= 3
  THEN LET value == IF Len(parts) > 3 /\ parts[4] # <<>>
                    THEN from_str(parts[4])
                    ELSE [ok |-> FALSE, val |-> JNull]
           i == EntryOrInsert(idx, parts[2])
       IN  IF parts[1] = OpAdd \/ parts[1] = OpUpdate
           THEN IF value.ok /\ parts[3] \notin DOMAIN i[parts[2]]
                THEN MapInsert(i, parts[2],
                               MapInsert(i[parts[2]], parts[3], value.val))
                ELSE i
           ELSE IF parts[1] = OpRemove
           THEN MapInsert(i, parts[2], MapRemove(i[parts[2]], parts[3]))
           ELSE i
  ELSE idx

\* A variant of the loop body in which an add or update whose document does
\* not parse stores null instead of being skipped.
ReplayLineNullOnBadDocument(idx, line) ==
  LET parts == split(line, "|") IN
  IF Len(parts) >= 3
  THEN LET value == IF Len(parts) > 3 /\ parts[4] # <<>>
                    THEN from_str(parts[4])
                    ELSE [ok |-> FALSE, val |-> JNull]
           i == EntryOrInsert(idx, parts[2])
       IN  IF parts[1] = OpAdd \/ parts[1] = OpUpdate
           THEN MapInsert(i, parts[2],
                          MapInsert(i[parts[2]], parts[3], value.val))
           ELSE IF parts[1] = OpRemove
           THEN MapInsert(i, parts[2], MapRemove(i[parts[2]], parts[3]))
           ELSE i
  ELSE idx

\* A variant of the loop body in which a remove record removes nothing.
ReplayLineKeepRemoved(idx, line) ==
  LET parts == split(line, "|") IN
  IF Len(parts) >= 3
  THEN LET value == IF Len(parts) > 3 /\ parts[4] # <<>>
                    THEN from_str(parts[4])
                    ELSE [ok |-> FALSE, val |-> JNull]
           i == EntryOrInsert(idx, parts[2])
       IN  IF (parts[1] = OpAdd \/ parts[1] = OpUpdate) /\ value.ok
           THEN MapInsert(i, parts[2],
                          MapInsert(i[parts[2]], parts[3], value.val))
           ELSE i
  ELSE idx

\* replay_log, lines 209-234: the effect of one line of the file
ReplayLine(idx, line) ==
  LET parts == split(line, "|") IN
  IF Len(parts) >= 3
  THEN LET operation == parts[1]
           table == parts[2]
           key == parts[3]
           value == IF Len(parts) > 3 /\ parts[4] # <<>>
                    THEN from_str(parts[4])
                    ELSE [ok |-> FALSE, val |-> JNull]
           i == EntryOrInsert(idx, table)
       IN  IF operation = OpAdd \/ operation = OpUpdate
           THEN IF value.ok
                THEN MapInsert(i, table, MapInsert(i[table], key, value.val))
                ELSE i
           ELSE IF operation = OpRemove
           THEN MapInsert(i, table, MapRemove(i[table], key))
           ELSE i
  ELSE idx

RECURSIVE ReplayLines(_, _)
ReplayLines(idx, ls) ==
  IF ls = <<>> THEN idx
  ELSE ReplayLines(ReplayLine(idx, Head(ls)), Tail(ls))

\* A variant of replay_log that clears an Index that is not empty instead of
\* replaying into it.
ReplayLogClearsLoaded(idx, file) ==
  IF idx = EmptyMap THEN ReplayLines(idx, lines(file)) ELSE EmptyMap

\* replay_log: every line of the file, in file order, into the Index
replay_log(idx, file) == ReplayLines(idx, lines(file))


(***************************************************************************)
(* Query evaluation (engine.rs:63-166).                                    *)
(***************************************************************************)
QueryCondition(field_path, operator, value) ==
  [field_path |-> field_path, operator |-> operator, value |-> value]

\* get_nested_value: follow the dot-separated path through objects only
RECURSIVE FollowPath(_, _)
FollowPath(value, path_parts) ==
  IF path_parts = <<>> THEN [some |-> TRUE, val |-> value]
  ELSE IF value[1] = "obj" /\ Head(path_parts) \in DOMAIN value[2]
       THEN FollowPath(value[2][Head(path_parts)], Tail(path_parts))
  ELSE NoneVal

get_nested_value(value, field_path) ==
  FollowPath(value, split(field_path, "."))

\* the unwrap_or(0.0) of line 127 taken for every number
AsF64Zero(v) == 0

\* Number::as_f64().unwrap_or(0.0)
as_f64(v) == v[3]

\* matches_condition with `(None, NotEquals) => true` and with a type
\* mismatch that passes
MatchesConditionLenient(value, condition) ==
  LET field_value == get_nested_value(value, condition.field_path)
      fv == field_value.val
      ex == condition.value
      op == condition.operator
  IN
  IF ~field_value.some THEN op = "NotEquals"
  ELSE CASE op = "Equals" -> fv = ex
         [] op = "NotEquals" -> fv # ex
         [] op = "Contains" ->
              (fv[1] = "str" /\ ex[1] = "str") => contains(fv[2], ex[2])
         [] OTHER -> fv[1] # "num" \/ ex[1] # "num"

\* matches_condition
matches_condition(value, condition) ==
  LET field_value == get_nested_value(value, condition.field_path)
      fv == field_value.val
      ex == condition.value
      op == condition.operator
      numbers == fv[1] = "num" /\ ex[1] = "num"
  IN
  IF ~field_value.some THEN FALSE
  ELSE CASE op = "Equals" -> fv = ex
         [] op = "NotEquals" -> fv # ex
         [] op = "Contains" ->
              fv[1] = "str" /\ ex[1] = "str" /\ contains(fv[2], ex[2])
         [] op = "GreaterThan" -> numbers /\ as_f64(fv) > as_f64(ex)
         [] op = "LessThan" -> numbers /\ as_f64(fv) < as_f64(ex)
         [] op = "GreaterThanOrEqual" -> numbers /\ as_f64(fv) >= as_f64(ex)
         [] op = "LessThanOrEqual" -> numbers /\ as_f64(fv) <= as_f64(ex)
         [] OTHER -> FALSE

\* matches_conditions with `any` for the `all` of line 107
MatchesAnyCondition(value, conditions) ==
  \E i \in 1..Len(conditions) : matches_condition(value, conditions[i])

\* matches_conditions: every condition matches
matches_conditions(value, conditions) ==
  \A i \in 1..Len(conditions) : matches_condition(value, conditions[i])

\* the same iteration without the filter at engine.rs:76
FilterRowsUnfiltered(table_data, conditions, order) ==
  LET present == SelectSeq(order, LAMBDA key : key \in DOMAIN table_data)
  IN  [i \in 1..Len(present) |-> <<present[i], table_data[present[i]]>>]

\* the entries of a table that match, in the order the map is iterated
RECURSIVE FilterRows(_, _, _)
FilterRows(table_data, conditions, order) ==
  IF order = <<>> THEN <<>>
  ELSE LET key == Head(order)
           rest == FilterRows(table_data, conditions, Tail(order))
       IN  IF key \in DOMAIN table_data
              /\ matches_conditions(table_data[key], conditions)
           THEN << <<key, table_data[key]>> >> \o rest
           ELSE rest

\* query_rows; order lists the keys in the order HashMap::iter yields them,
\* which is unspecified
query_rows(idx, table, conditions, order) ==
  IF table \in DOMAIN idx
  THEN FilterRows(idx[table], conditions, order)
  ELSE <<>>

(***************************************************************************)
(* The engine's mutations.  add_row, update_row and remove_row first await *)
(* log_entry and then take the Index write lock; a pending call is the     *)
(* mutation between these two steps.                                       *)
(***************************************************************************)
NoCall == [operation |-> <<>>, table |-> <<>>, key |-> <<>>, values |-> JNull]

Call(operation, table, key, values) ==
  [operation |-> operation, table |-> table, key |-> key, values |-> values]

\* the record add_row, update_row and remove_row hand to log_entry
\* (engine.rs:44-50, 169-170, 180-186)
CallEntry(c) ==
  LogEntry(c.operation, c.table, c.key,
           IF c.operation = OpRemove THEN NoneStr
           ELSE Some(to_string(c.values)))

\* A variant of the first step that returns without appending the record.
EngineLogDropped(file, c) == file

\* first step of add_row / update_row / remove_row: the awaited log_entry
EngineLog(file, c) == log_entry(file, CallEntry(c))

\* the file after a log_entry that failed: an open or write error leaves it
\* as it was, a flush error may leave the line in it
LogErrorFiles(file, c) == {file, log_entry(file, CallEntry(c))}

\* A variant in which the error of log_entry is ignored and the mutation
\* goes on to update the Index.
LogErrorIgnored(idx, c) ==
  IF c.operation = OpRemove THEN IndexRemove(idx, c.table, c.key)
  ELSE IndexUpsert(idx, c.table, c.key, c.values)

\* the Index after a log_entry that failed: the unwrap of logs.rs:49, 59, 60
\* panics before engine.rs:53 is reached
LogErrorIndex(idx, c) == idx

\* update_row that changes only a key that exists
EngineIndexUpdateExisting(idx, c) ==
  IF c.operation = OpRemove THEN IndexRemove(idx, c.table, c.key)
  ELSE IF c.operation = OpUpdate /\ ~get_row(idx, c.table, c.key).some
  THEN idx
  ELSE IndexUpsert(idx, c.table, c.key, c.values)

\* second step of add_row / update_row / remove_row: the Index update
EngineIndex(idx, c) ==
  IF c.operation = OpRemove THEN IndexRemove(idx, c.table, c.key)
  ELSE IndexUpsert(idx, c.table, c.key, c.values)

(***************************************************************************)
(* UserManager (src/src/user_manager.rs).                                  *)
(***************************************************************************)
Admin == <<"a", "d", "m", "i", "n">>
AdminPassword == <<"a", "d", "m", "i", "n", "1", "2", "3">>

\* hash_password: DefaultHasher of the password, taken to be injective
hash_password(password) == <<"hash", password>>

verify_password(password, hash) == hash_password(password) = hash

\* UserManager::new followed by ensure_default_admin (main.rs:100-101)
DefaultUsers ==
  MapInsert(EmptyMap, Admin,
            [password_hash |-> hash_password(AdminPassword), role |-> "Admin"])

\* UserRole::to_string
role_to_string(role) ==
  IF role = "Admin" THEN <<"a", "d", "m", "i", "n">>
  ELSE <<"u", "s", "e", "r">>

\* get_connection_user: the name and role of the connection's user, if the
\* connection is in the table and its user exists
get_connection_user(conns, usr, connection_id) ==
  IF connection_id \in DOMAIN conns /\ conns[connection_id] \in DOMAIN usr
  THEN [some |-> TRUE, username |-> conns[connection_id],
        role |-> usr[conns[connection_id]].role]
  ELSE [some |-> FALSE, username |-> <<>>, role |-> "User"]

\* A variant of authenticate_connection that does not look at the password.
AuthenticateAnyPassword(conns, usr, connection_id, username, password) ==
  IF username \in DOMAIN usr
  THEN [ok |-> TRUE, conns |-> MapInsert(conns, connection_id, username)]
  ELSE [ok |-> FALSE, conns |-> conns]

\* authenticate_connection: the connection table after the call, and whether
\* it returned Ok
authenticate_connection(conns, usr, connection_id, username, password) ==
  IF username \in DOMAIN usr
     /\ verify_password(password, usr[username].password_hash)
  THEN [ok |-> TRUE, conns |-> MapInsert(conns, connection_id, username)]
  ELSE [ok |-> FALSE, conns |-> conns]

\* A variant of logout_connection that empties the connection table.
LogoutEveryone(conns, connection_id) == EmptyMap

logout_connection(conns, connection_id) == MapRemove(conns, connection_id)

\* A variant of the authentication test that accepts every connection.
AlwaysAuthenticated(conns, connection_id) == TRUE

is_connection_authenticated(conns, connection_id) ==
  connection_id \in DOMAIN conns

\* A variant of the cleanup that leaves the connection table as it is.
CleanupSkipped(conns, connection_id) == conns

cleanup_connection(conns, connection_id) ==
  logout_connection(conns, connection_id)

(***************************************************************************)
(* Session protocol (src/src/connection.rs).                               *)
(***************************************************************************)

\* a message of helpers/messages.rs, named by its constant; body carries the
\* variable part of the text
Msg(kind, body) == [kind |-> kind, body |-> body]
NoMsg == Msg("none", <<>>)

Login == <<"l", "o", "g", "i", "n">>
Logout == <<"l", "o", "g", "o", "u", "t">>
Set == <<"s", "e", "t">>
Get == <<"g", "e", "t">>
Update == <<"u", "p", "d", "a", "t", "e">>
Delete == <<"d", "e", "l", "e", "t", "e">>
Exit == <<"e", "x", "i", "t">>
Query == <<"q", "u", "e", "r", "y">>
Whoami == <<"w", "h", "o", "a", "m", "i">>
Help == <<"h", "e", "l", "p">>

\* the operators parse_single_condition tries, in its order (line 331)
Operators ==
  << [text |-> <<">", "=">>, operator |-> "GreaterThanOrEqual"],
     [text |-> <<"<", "=">>, operator |-> "LessThanOrEqual"],
     [text |-> <<"!", "=">>, operator |-> "NotEquals"],
     [text |-> <<"=">>, operator |-> "Equals"],
     [text |-> <<">">>, operator |-> "GreaterThan"],
     [text |-> <<"<">>, operator |-> "LessThan"] >>

\* str::parse::<f64> followed by json!(num), for the texts of the model:
\* digits give a float, "inf", "infinity" and "nan" in any letter case give
\* a number that is not finite, which json! turns into null
ParseF64(s) ==
  IF s # <<>> /\ \A i \in 1..Len(s) : IsDigit(s[i])
  THEN [ok |-> TRUE, val |-> JFloat(StrToNum(s))]
  ELSE IF to_lowercase(s) \in { <<"i", "n", "f">>, <<"n", "a", "n">>,
                                <<"i", "n", "f", "i", "n", "i", "t", "y">> }
  THEN [ok |-> TRUE, val |-> JNull]
  ELSE [ok |-> FALSE, val |-> JNull]

\* lines 352-362: the typed literal of a condition
LiteralValue(value_str) ==
  IF starts_with(value_str, "\"") /\ ends_with(value_str, "\"")
  THEN JStr(trim_matches(value_str, "\""))
  ELSE IF ParseF64(value_str).ok THEN ParseF64(value_str).val
  ELSE IF value_str = <<"t", "r", "u", "e">> THEN JBool(TRUE)
  ELSE IF value_str = <<"f", "a", "l", "s", "e">> THEN JBool(FALSE)
  ELSE IF value_str = <<"n", "u", "l", "l">> THEN JNull
  ELSE JStr(value_str)

CondOk(c) == [ok |-> TRUE, cond |-> c, err |-> NoMsg]
CondErr(kind, body) ==
  [ok |-> FALSE, cond |-> QueryCondition(<<>>, "Equals", JNull),
   err |-> Msg(kind, body)]

\* lines 331-370: the first operator of the list that occurs in the text
RECURSIVE ParseOperators(_, _)
ParseOperators(condition_str, i) ==
  IF i > Len(Operators)
  THEN CondErr("query_error(invalid_condition)", condition_str)
  ELSE IF contains(condition_str, Operators[i].text)
  THEN LET parts == splitn2_str(condition_str, Operators[i].text) IN
       CondOk(QueryCondition(trim(parts[1]), Operators[i].operator,
                             LiteralValue(trim(parts[2]))))
  ELSE ParseOperators(condition_str, i + 1)

\* parse_single_condition that accepts every text as a condition
ParseConditionLenient(condition_str) ==
  CondOk(QueryCondition(trim(condition_str), "NotEquals", JNull))

\* parse_single_condition
parse_single_condition(condition_str) ==
  IF contains(condition_str, <<"c", "o", "n", "t", "a", "i", "n", "s">>)
  THEN LET parts ==
             split_str(condition_str,
                       <<" ", "c", "o", "n", "t", "a", "i", "n", "s", " ">>)
       IN  IF Len(parts) # 2
           THEN CondErr("query_error(ERROR_INVALID_CONTAINS)", <<>>)
           ELSE CondOk(QueryCondition(
                         trim(parts[1]), "Contains",
                         JStr(trim_matches(trim(parts[2]), "\""))))
  ELSE ParseOperators(condition_str, 1)

\* query_results_header followed by one query_result_item per result: the
\* count, then "key: document" lines
RECURSIVE ResultItems(_)
ResultItems(results) ==
  IF results = <<>> THEN <<>>
  ELSE results[1][1] \o <<":", " ">> \o to_string(results[1][2]) \o <<"\n">>
         \o ResultItems(Tail(results))

QueryResponse(results) ==
  IF results = <<>> THEN Msg("QUERY_NO_RESULTS", <<>>)
  ELSE Msg("query_results",
           NumToStr(Len(results)) \o <<"\n">> \o ResultItems(results))

\* the responses that report an error of the command: a bad argument count,
\* an unknown verb, a missing or failed authentication, a document that is
\* not JSON, an invalid query condition
ErrorKinds ==
  { "ERROR_LOGIN_ARGS", "ERROR_SET_ARGS", "ERROR_GET_ARGS",
    "ERROR_UPDATE_ARGS", "ERROR_DELETE_ARGS", "ERROR_QUERY_ARGS",
    "unknown_command", "ERROR_NOT_AUTHENTICATED",
    "ERROR_INVALID_CREDENTIALS", "ERROR_INVALID_JSON",
    "query_error(ERROR_INVALID_CONTAINS)", "query_error(invalid_condition)" }

\* what parse_command has done when it returns, or when it awaits log_entry
\* inside a mutation: the response, the connection table, the pending call
Outcome(response, conns, c) ==
  [response |-> response, conns |-> conns, call |-> c]

\* A variant of the "set" and "update" arms that passes a text that is not
\* JSON to the engine as a string.
ParseUpsertUnchecked(parts, operation, argsError, authed, conns) ==
  IF ~authed THEN Outcome(Msg("ERROR_NOT_AUTHENTICATED", <<>>), conns, NoCall)
  ELSE IF Len(parts) # 4 THEN Outcome(Msg(argsError, <<>>), conns, NoCall)
  ELSE LET value == from_str(parts[4]) IN
       Outcome(Msg("SUCCESS_OK", <<>>), conns,
               Call(operation, parts[2], parts[3],
                    IF value.ok THEN value.val ELSE JStr(parts[4])))

\* parse_command, "set" and "update" arms (lines 124-149, 176-201)
ParseUpsert(parts, operation, argsError, authed, conns) ==
  IF ~authed THEN Outcome(Msg("ERROR_NOT_AUTHENTICATED", <<>>), conns, NoCall)
  ELSE IF Len(parts) # 4 THEN Outcome(Msg(argsError, <<>>), conns, NoCall)
  ELSE LET value == from_str(parts[4]) IN
       IF value.ok
       THEN Outcome(Msg("SUCCESS_OK", <<>>), conns,
                    Call(operation, parts[2], parts[3], value.val))
       ELSE Outcome(Msg("ERROR_INVALID_JSON", <<>>), conns, NoCall)

\* parse_command (lines 86-261); order is the order in which the Index
\* iterates the keys of a table
parse_command(command, connection_id, conns, usr, idx, order) ==
  LET parts == splitn(trim(command), 4, " ")
      cmd == to_lowercase(parts[1])
      authed == is_connection_authenticated(conns, connection_id)
      NotAuth == Outcome(Msg("ERROR_NOT_AUTHENTICATED", <<>>), conns, NoCall)
  IN
  CASE cmd = Login ->
         IF Len(parts) # 3
         THEN Outcome(Msg("ERROR_LOGIN_ARGS", <<>>), conns, NoCall)
         ELSE LET r == authenticate_connection(conns, usr, connection_id,
                                               parts[2], parts[3])
              IN  IF r.ok
                  THEN Outcome(Msg("LOGIN_SUCCESS", <<>>), r.conns, NoCall)
                  ELSE Outcome(Msg("ERROR_INVALID_CREDENTIALS", <<>>),
                               conns, NoCall)
    [] cmd = Logout ->
         Outcome(Msg("LOGOUT_SUCCESS", <<>>),
                 logout_connection(conns, connection_id), NoCall)
    [] cmd = Set ->
         ParseUpsert(parts, OpAdd, "ERROR_SET_ARGS", authed, conns)
    [] cmd = Get ->
         IF ~authed THEN NotAuth
         ELSE IF Len(parts) # 3
         THEN Outcome(Msg("ERROR_GET_ARGS", <<>>), conns, NoCall)
         ELSE LET row == get_row(idx, parts[2], parts[3]) IN
              IF row.some
              THEN Outcome(Msg("value", to_string(row.val) \o <<"\n">>),
                           conns, NoCall)
              ELSE Outcome(Msg("SUCCESS_NULL", <<>>), conns, NoCall)
    [] cmd = Update ->
         ParseUpsert(parts, OpUpdate, "ERROR_UPDATE_ARGS", authed, conns)
    [] cmd = Delete ->
         IF ~authed THEN NotAuth
         ELSE IF Len(parts) # 3
         THEN Outcome(Msg("ERROR_DELETE_ARGS", <<>>), conns, NoCall)
         ELSE Outcome(Msg("SUCCESS_OK", <<>>), conns,
                      Call(OpRemove, parts[2], parts[3], JNull))
    [] cmd = Whoami ->
         LET user == get_connection_user(conns, usr, connection_id) IN
         IF user.some
         THEN Outcome(Msg("user_whoami_response",
                          user.username \o <<" ">>
                            \o role_to_string(user.role)),
                      conns, NoCall)
         ELSE Outcome(Msg("no_user_logged_in", <<>>), conns, NoCall)
    [] cmd = Query ->
         IF ~authed THEN NotAuth
         ELSE IF Len(parts) < 3
         THEN Outcome(Msg("ERROR_QUERY_ARGS", <<>>), conns, NoCall)
         ELSE LET c == parse_single_condition(
                         join(SubSeq(parts, 3, Len(parts)), <<" ">>))
              IN  IF c.ok
                  THEN Outcome(QueryResponse(
                                 query_rows(idx, parts[2], <<c.cond>>, order)),
                               conns, NoCall)
                  ELSE Outcome(c.err, conns, NoCall)
    [] cmd = Help -> Outcome(Msg("TCP_HELP_TEXT", <<>>), conns, NoCall)
    [] OTHER -> Outcome(Msg("unknown_command", cmd), conns, NoCall)


(***************************************************************************)
(* State.                                                                  *)
(***************************************************************************)
VARIABLES
  wal,        \* content of the log file (LogStorageSetup.log_file_path)
  index,      \* Engine.index: table |-> (key |-> document)
  started,    \* TCPServer::new has returned (the log has been replayed)
  users,      \* UserManager.users
  authenticated_connections,  \* UserManager: connection id |-> username
  backlog,    \* established connections the listener has not accepted yet
  handling,   \* the connection whose handle_connection main is awaiting
  pc,         \* per address: position of the connection and of its handler
  call,       \* per caller: the mutation between log_entry and the Index
  cli,        \* per address: the client's end of the connection, on or off
  inbuf,      \* per address: bytes the client has sent, not yet read
  recv,       \* per address: the last message written to the client, unread
  connects,   \* number of connections opened so far
  loggedIn,   \* history: this connection's last LOGIN/LOGOUT was a LOGIN
              \* that succeeded
  eofAuth,    \* history: the last handler of this address ended by EOF
              \* (Ok(0)) with its connection in the connection table
  written,    \* history: per connection, the last effect it wrote per key
  asked,      \* history: per connection, the query that its client sent last
              \* and has not sent another command after
  index_lock, \* Engine.index's RwLock between steps: "free" or "write"
  reader,     \* replay_log's BufReader: open or not, and the lines of the
              \* file it has not returned yet
  current_user,  \* UserManager.current_user (the user of the CLI mode)
  users_lock, \* UserManager.users' RwLock between steps: "free", "write"
              \* or "poisoned"
  terminal    \* CLI mode: the line read last and what was printed for it

vars ==
  << wal, index, started, users, authenticated_connections, backlog,
     handling, pc, call, cli, inbuf, recv, connects, loggedIn, eofAuth,
     written, asked, index_lock, reader, current_user, users_lock,
     terminal >>

\* nothing has been typed or printed
NoTerminal == [input |-> <<>>, output |-> NoMsg]

\* no file is open for replay
NoReader == [open |-> FALSE, rest |-> <<>>]

engineVars == <<wal, index, call, index_lock, reader>>
lockVars == <<index_lock, reader>>
cliVars == <<current_user, users_lock, terminal>>
netVars == <<backlog, handling, pc, cli, inbuf, recv, connects>>
histVars == <<loggedIn, eofAuth, written, asked>>

\* Engine::new on a database without a log file, UserManager with the
\* default admin, the listener bound, no connection yet
Init ==
  /\ wal = <<>>
  /\ index = EmptyMap
  /\ started = TRUE
  /\ users = DefaultUsers
  /\ authenticated_connections = EmptyMap
  /\ backlog = <<>>
  /\ handling = NoConn
  /\ pc = [a \in Addrs |-> "none"]
  /\ call = [a \in Addrs |-> NoCall]
  /\ cli = [a \in Addrs |-> "off"]
  /\ inbuf = [a \in Addrs |-> <<>>]
  /\ recv = [a \in Addrs |-> NoMsg]
  /\ connects = 0
  /\ loggedIn = [a \in Addrs |-> FALSE]
  /\ eofAuth = [a \in Addrs |-> FALSE]
  /\ written = [a \in Addrs |-> EmptyMap]
  /\ asked = [a \in Addrs |-> <<>>]
  /\ index_lock = "free"
  /\ reader = NoReader
  /\ current_user = NoneStr
  /\ users_lock = "free"
  /\ terminal = NoTerminal

\* number of records in the log file
WalRecords == Len(lines(wal))

(***************************************************************************)
(* Clients.                                                                *)
(***************************************************************************)
SP == <<" ">>

\* the command lines a client sends
DocObject == <<"{", "\"", "a", "\"", ":", "1", "}">>
DocPipe == <<"\"", "|", "\"">>
DocInvalid == <<"x">>

DataCommands ==
  { join(<<Set, t, k, DocObject>>, SP) : t \in Tables, k \in Keys }
  \cup { join(<<v, t, <<"k">>, DocInvalid>>, SP) :
           v \in {Set, Update}, t \in Tables }
  \cup { join(<<Update, t, <<"k">>, DocPipe>>, SP) : t \in Tables }
  \cup { join(<<Delete, t, <<"k">>>>, SP) : t \in Tables }
  \cup { join(<<<<"G", "E", "T">>, t, k>>, SP) : t \in Tables, k \in Keys }

SessionCommands ==
  { join(<<Login, Admin, AdminPassword>>, SP),
    join(<<<<"L", "O", "G", "I", "N">>, Admin, <<"x">>>>, SP),
    Logout,
    Exit }

\* query t a>0
QueryCommands ==
  { join(<<Query, t, <<"a", ">", "0">>>>, SP) : t \in Tables }

\* commands that are answered with an error: a GET with one argument, an
\* unknown verb, a query whose condition has no operator
ErrorCommands ==
  { join(<<Get, <<"t">>>>, SP), <<"x">>,
    join(<<Query, <<"t">>, <<"a">>>>, SP) }

Commands ==
  DataCommands \cup SessionCommands \cup QueryCommands \cup ErrorCommands

\* the command makes the engine append a record when it is accepted
IsMutation(cmd) ==
  to_lowercase(splitn(trim(cmd), 4, " ")[1]) \in {Set, Update, Delete}

\* the verb of a command: parts[0].to_lowercase() (connection.rs:87-93)
Verb(text) == to_lowercase(splitn(trim(text), 4, " ")[1])

\* a client opens a connection from address a: it waits in the backlog
Connect(a) ==
  /\ started
  /\ \A b \in Addrs : pc[b] # "panicked"
  /\ a = FirstAddr \/ connects > 0
  /\ cli[a] = "off"
  /\ pc[a] \in {"none", "done"}
  /\ connects < MaxConnects
  /\ cli' = [cli EXCEPT ![a] = "on"]
  /\ pc' = [pc EXCEPT ![a] = "queued"]
  /\ backlog' = Append(backlog, a)
  /\ inbuf' = [inbuf EXCEPT ![a] = <<>>]
  /\ recv' = [recv EXCEPT ![a] = NoMsg]
  /\ connects' = connects + 1
  /\ loggedIn' = [loggedIn EXCEPT ![a] = FALSE]
  /\ written' = [written EXCEPT ![a] = EmptyMap]
  /\ asked' = [asked EXCEPT ![a] = <<>>]
  /\ UNCHANGED <<engineVars, started, users, cliVars, authenticated_connections,
                 handling, eofAuth>>

\* a client that has read the banner or the last response sends a command
\* (bytes sent to a connection whose handler has returned are never read)
ClientSendUpTo(a, cmd, records) ==
  /\ cli[a] = "on"
  /\ pc[a] = "read"
  /\ recv[a] # NoMsg
  /\ inbuf[a] = <<>>
  /\ IsMutation(cmd) => WalRecords < records
  /\ inbuf' = [inbuf EXCEPT ![a] = cmd \o <<"\n">>]
  /\ recv' = [recv EXCEPT ![a] = NoMsg]
  /\ asked' = [asked EXCEPT ![a] = IF Verb(cmd) = Query THEN cmd ELSE <<>>]
  /\ UNCHANGED <<engineVars, started, users, cliVars, authenticated_connections,
                 backlog, handling, pc, cli, connects, loggedIn, eofAuth,
                 written>>

\* the same with the bound of the model on the records of the log file
ClientSend(a, cmd) == ClientSendUpTo(a, cmd, MaxWal)

\* a client closes its end of the connection; it reads nothing any more
ClientClose(a) ==
  /\ cli[a] = "on"
  /\ cli' = [cli EXCEPT ![a] = "off"]
  /\ recv' = [recv EXCEPT ![a] = NoMsg]
  /\ UNCHANGED <<engineVars, started, users, cliVars, authenticated_connections,
                 backlog, handling, pc, inbuf, connects, histVars>>


(***************************************************************************)
(* Server: the accept loop (main.rs:130-133) and handle_connection         *)
(* (connection.rs:375-449).                                                *)
(***************************************************************************)

\* results stream.write_all can have: it succeeds while the client's end is
\* open, and may fail once the client has closed it
WriteResults(a) == IF cli[a] = "on" THEN {TRUE} ELSE {TRUE, FALSE}

\* what the client can read after the server wrote msg: nothing once the
\* client has closed its end
Deliver(a, msg) == IF cli[a] = "on" THEN [recv EXCEPT ![a] = msg] ELSE recv

\* the handler of a returns to the accept loop and the socket is dropped,
\* which ends the connection on the client's side too; the histories of
\* the connection end with it.  conns is the connection table when the
\* handler leaves its loop (before the cleanup, if there is one).
Terminate(a, path, conns) ==
  /\ pc' = [pc EXCEPT ![a] = "done"]
  /\ handling' = IF handling = a THEN NoConn ELSE handling
  /\ cli' = [cli EXCEPT ![a] = "off"]
  /\ eofAuth' =
       [eofAuth EXCEPT
          ![a] = path = "eof" /\ is_connection_authenticated(conns, a)]
  /\ loggedIn' = [loggedIn EXCEPT ![a] = FALSE]
  /\ written' = [written EXCEPT ![a] = EmptyMap]
  /\ asked' = [asked EXCEPT ![a] = <<>>]

\* history: the effect of a response on "this connection has logged in"
LoggedInAfter(was, response) ==
  IF response.kind = "LOGIN_SUCCESS" THEN TRUE
  ELSE IF response.kind = "LOGOUT_SUCCESS" THEN FALSE
  ELSE was

\* history: connection a has written key (table, key); what another
\* connection knew about that key is forgotten
WrittenAfter(a, c) ==
  [b \in Addrs |->
     IF b = a
     THEN MapInsert(written[b], <<c.table, c.key>>,
                    IF c.operation = OpRemove THEN NoneVal
                    ELSE [some |-> TRUE, val |-> c.values])
     ELSE MapRemove(written[b], <<c.table, c.key>>)]

\* A variant of the response step that goes back to the read without
\* writing the response.
RespondSilently(a, response, ok, li, wr, conns) ==
  /\ recv' = recv
  /\ pc' = [pc EXCEPT ![a] = "read"]
  /\ loggedIn' = li
  /\ written' = wr
  /\ UNCHANGED <<handling, cli, eofAuth, asked>>

\* A variant of the response step that leaves the loop after an error
\* response.
RespondCloseOnError(a, response, ok, li, wr, conns) ==
  IF ok /\ response.kind \notin ErrorKinds
  THEN /\ recv' = Deliver(a, response)
       /\ pc' = [pc EXCEPT ![a] = "read"]
       /\ loggedIn' = li
       /\ written' = wr
       /\ UNCHANGED <<handling, cli, eofAuth, asked>>
  ELSE /\ recv' = IF ok THEN Deliver(a, response) ELSE recv
       /\ Terminate(a, "write_error", conns)

\* lines 433-438: write the response; a failed write leaves the loop.
\* li and wr are the histories if the handler goes on.
Respond(a, response, ok, li, wr, conns) ==
  IF ok
  THEN /\ recv' = Deliver(a, response)
       /\ pc' = [pc EXCEPT ![a] = "read"]
       /\ loggedIn' = li
       /\ written' = wr
       /\ UNCHANGED <<handling, cli, eofAuth, asked>>
  ELSE /\ recv' = recv
       /\ Terminate(a, "write_error", conns)

\* main.rs:131-132 and connection.rs:376-392: main accepts the next
\* connection, enters handle_connection and awaits it; the handler sends the
\* banner and returns at once when that write fails
Accept ==
  /\ started
  /\ handling = NoConn
  /\ backlog # <<>>
  /\ LET a == Head(backlog) IN
     \E ok \in WriteResults(a) :
       /\ backlog' = Tail(backlog)
       /\ IF ok
          THEN /\ recv' = Deliver(a, Msg("AUTH_REQUIRED", <<>>))
               /\ pc' = [pc EXCEPT ![a] = "read"]
               /\ handling' = a
               /\ UNCHANGED <<cli, histVars>>
          ELSE /\ recv' = recv
               /\ Terminate(a, "banner_error", authenticated_connections)
  /\ UNCHANGED <<engineVars, started, users, cliVars, authenticated_connections,
                 inbuf, connects>>

\* the orders in which HashMap::iter can yield the keys of the Index: every
\* arrangement of them
IterationOrders(idx) ==
  LET ks == UNION { DOMAIN idx[t] : t \in DOMAIN idx } IN
  { o \in [1..Cardinality(ks) -> ks] :
      \A i, j \in 1..Cardinality(ks) : i # j => o[i] # o[j] }

\* logs.rs:44-60: open, write_all or flush returns an error and unwrap
\* panics.  The panic unwinds add_row / update_row / remove_row before the
\* Index is touched, then parse_command, handle_connection and main, which
\* awaits them inline: the process ends.  Nothing is written to the client.
LogPanic(a, c) ==
  /\ wal' \in LogErrorFiles(wal, c)
  /\ index' = LogErrorIndex(index, c)
  /\ pc' = [pc EXCEPT ![a] = "panicked"]
  /\ UNCHANGED <<call, lockVars, handling, cli, recv, histVars>>

\* a get that creates the table it reads, as index.entry(table).or_default()
\* would
ReadIndexCreatesTable(idx, command) ==
  LET parts == splitn(command, 4, " ") IN
  IF to_lowercase(parts[1]) = Get /\ Len(parts) = 3
  THEN EntryOrInsert(idx, parts[2])
  ELSE idx

\* the Index after a command that calls no mutation: get_row and query_rows
\* take index.read() and look the table up with get (engine.rs:59-60,
\* 68-72); the other arms of parse_command do not use the engine
ReadIndex(idx, command) == idx

\* lines 394-397, 405-438: read returns Ok(n), n > 0, with the first n of
\* the bytes that have arrived.  Those n bytes, trimmed, are the command; it
\* is handled up to its response, or up to the awaited log_entry of a
\* mutation.
ReadBytes(a, n) ==
  /\ pc[a] = "read"
  /\ n \in 1..Len(inbuf[a])
  /\ inbuf' = [inbuf EXCEPT ![a] = SubSeq(@, n + 1, Len(@))]
  /\ LET command == trim(SubSeq(inbuf[a], 1, n)) IN
     IF command = <<>>
     THEN \* line 409: continue
          UNCHANGED <<engineVars, authenticated_connections, handling, pc,
                      cli, recv, histVars>>
     ELSE IF to_lowercase(command) = Exit
     THEN \* lines 417-429
          /\ authenticated_connections' =
               cleanup_connection(authenticated_connections, a)
          /\ \E ok \in WriteResults(a) :
               recv' = IF ok THEN Deliver(a, Msg("SUCCESS_GOODBYE", <<>>))
                       ELSE recv
          /\ Terminate(a, "exit", authenticated_connections)
          /\ UNCHANGED engineVars
     ELSE \E order \in IterationOrders(index) :
          LET o == parse_command(command, a, authenticated_connections,
                                 users, index, order)
              li == [loggedIn EXCEPT ![a] = LoggedInAfter(@, o.response)]
          IN  /\ authenticated_connections' = o.conns
              /\ IF o.call # NoCall
                 THEN \/ /\ wal' = EngineLog(wal, o.call)
                         /\ call' = [call EXCEPT ![a] = o.call]
                         /\ pc' = [pc EXCEPT ![a] = "apply"]
                         /\ UNCHANGED <<index, lockVars, handling, cli,
                                        recv, histVars>>
                      \/ LogPanic(a, o.call)
                 ELSE /\ \E ok \in WriteResults(a) :
                           Respond(a, o.response, ok, li, written, o.conns)
                      /\ index' = ReadIndex(index, command)
                      /\ UNCHANGED <<wal, call, lockVars>>
  /\ UNCHANGED <<started, users, cliVars, backlog, connects>>

\* line 397 when the client waits for each response before it sends the next
\* command: one read returns the whole command.
ReadCommand(a) ==
  ReadBytes(a, Len(inbuf[a]))

\* engine.rs:53-55, 173-176, 189-191 and connection.rs:145, 197, 217,
\* 433-438: log_entry has returned; the Index is updated and OK is written
Apply(a) ==
  /\ pc[a] = "apply"
  /\ index' = EngineIndex(index, call[a])
  /\ call' = [call EXCEPT ![a] = NoCall]
  /\ \E ok \in WriteResults(a) :
       Respond(a, Msg("SUCCESS_OK", <<>>), ok, loggedIn,
               WrittenAfter(a, call[a]), authenticated_connections)
  /\ UNCHANGED <<wal, lockVars, started, users, cliVars, authenticated_connections,
                 backlog, inbuf, connects>>

\* lines 398-404: read returns Ok(0) when the client has closed and
\* everything it sent has been read
ReadEof(a) ==
  /\ pc[a] = "read"
  /\ inbuf[a] = <<>>
  /\ cli[a] = "off"
  /\ authenticated_connections' =
       cleanup_connection(authenticated_connections, a)
  /\ Terminate(a, "eof", authenticated_connections)
  /\ UNCHANGED <<engineVars, started, users, cliVars, backlog, inbuf, recv,
                 connects>>

\* lines 440-446: read returns Err, as it may once the client has closed
\* (a reset); what the client had sent is lost
ReadError(a) ==
  /\ pc[a] = "read"
  /\ cli[a] = "off"
  /\ inbuf' = [inbuf EXCEPT ![a] = <<>>]
  /\ authenticated_connections' =
       cleanup_connection(authenticated_connections, a)
  /\ Terminate(a, "read_error", authenticated_connections)
  /\ UNCHANGED <<engineVars, started, users, cliVars, backlog, recv, connects>>

Next ==
  \/ \E a \in Addrs : Connect(a)
  \/ \E a \in Addrs, cmd \in Commands : ClientSend(a, cmd)
  \/ \E a \in Addrs : ClientClose(a)
  \/ Accept
  \/ \E a \in Addrs : ReadCommand(a)
  \/ \E a \in Addrs : Apply(a)
  \/ \E a \in Addrs : ReadEof(a)
  \/ \E a \in Addrs : ReadError(a)

Spec == Init /\ [][Next]_vars

(***************************************************************************)
(* Startup on an existing log file: TCPServer::new replays the file        *)
(* (connection.rs:34-38).  The file is any sequence of the lines below,    *)
(* well formed or not.                                                     *)
(***************************************************************************)
BAR == <<"|">>

FileLines ==
  { join(<<OpAdd, <<"t">>, <<"k">>, <<"1">>>>, BAR),
    join(<<OpUpdate, <<"t">>, <<"k">>, <<"2">>>>, BAR),
    join(<<OpRemove, <<"t">>, <<"k">>, <<>>>>, BAR),
    join(<<OpAdd, <<"t">>, <<"j">>, DocObject>>, BAR),
    join(<<OpAdd, <<"t">>, <<"k">>, DocObject>>, BAR),
    join(<<OpAdd, <<"u">>, <<"k">>, <<"2">>>>, BAR),
    \* a document that is not JSON
    join(<<OpAdd, <<"t">>, <<"k">>, <<"x">>>>, BAR),
    \* the record of the document "|" as log_entry writes it
    join(<<OpUpdate, <<"t">>, <<"k">>, DocPipe>>, BAR),
    \* an unknown operation
    join(<<<<"x">>, <<"t">>, <<"k">>, <<"1">>>>, BAR),
    \* fewer than three fields
    join(<<OpAdd, <<"t">>>>, BAR),
    \* three fields
    join(<<OpRemove, <<"t">>, <<"j">>>>, BAR),
    \* an add without a document
    join(<<OpAdd, <<"t">>, <<"j">>, <<>>>>, BAR) }

\* the process has not started; the log file of an earlier run is on disk
InitReplay ==
  /\ wal = <<>>
  /\ index = EmptyMap
  /\ started = FALSE
  /\ users = DefaultUsers
  /\ authenticated_connections = EmptyMap
  /\ backlog = <<>>
  /\ handling = NoConn
  /\ pc = [a \in Addrs |-> "none"]
  /\ call = [a \in Addrs |-> NoCall]
  /\ cli = [a \in Addrs |-> "off"]
  /\ inbuf = [a \in Addrs |-> <<>>]
  /\ recv = [a \in Addrs |-> NoMsg]
  /\ connects = 0
  /\ loggedIn = [a \in Addrs |-> FALSE]
  /\ eofAuth = [a \in Addrs |-> FALSE]
  /\ written = [a \in Addrs |-> EmptyMap]
  /\ asked = [a \in Addrs |-> <<>>]
  /\ index_lock = "free"
  /\ reader = NoReader
  /\ current_user = NoneStr
  /\ users_lock = "free"
  /\ terminal = NoTerminal

\* one more line of the file the process will find at startup
FileLine(line) ==
  /\ ~started
  /\ WalRecords < MaxFileLines
  /\ wal' = wal \o line \o <<"\n">>
  /\ UNCHANGED <<index, call, lockVars, started, users, cliVars,
                 authenticated_connections, netVars, histVars>>

\* TCPServer::new: Engine::new, then replay_log
Startup ==
  /\ ~started
  /\ index' = replay_log(EmptyMap, wal)
  /\ started' = TRUE
  /\ UNCHANGED <<wal, call, lockVars, users, cliVars, authenticated_connections,
                 netVars, histVars>>

NextReplay ==
  \/ \E line \in FileLines : FileLine(line)
  \/ Startup

SpecReplay == InitReplay /\ [][NextReplay]_vars

(***************************************************************************)
(* The engine under concurrent callers.  Engine is shared as Arc<Engine>   *)
(* and its mutations take &self and await log_entry, so tasks that hold    *)
(* the engine can be inside add_row, update_row or remove_row at the same  *)
(* time; each caller is identified by the address of its connection.       *)
(***************************************************************************)
EngineCalls ==
  { Call(op, t, k, v) :
      op \in {OpAdd, OpUpdate}, t \in Tables, k \in Keys,
      v \in {JPosInt(1), JPosInt(2)} }
  \cup { Call(OpRemove, t, k, JNull) : t \in Tables, k \in Keys }

\* add_row / update_row / remove_row up to the end of the awaited log_entry
EngineBegin(p, c) ==
  /\ call[p] = NoCall
  /\ WalRecords < MaxWal
  /\ wal' = EngineLog(wal, c)
  /\ call' = [call EXCEPT ![p] = c]
  /\ UNCHANGED <<index, lockVars, started, users, cliVars, authenticated_connections,
                 netVars, histVars>>

\* add_row / update_row / remove_row from the Index write lock to the return
EngineEnd(p) ==
  /\ call[p] # NoCall
  /\ index' = EngineIndex(index, call[p])
  /\ call' = [call EXCEPT ![p] = NoCall]
  /\ UNCHANGED <<wal, lockVars, started, users, cliVars, authenticated_connections,
                 netVars, histVars>>

NextEngine ==
  \/ \E p \in Addrs, c \in EngineCalls : EngineBegin(p, c)
  \/ \E p \in Addrs : EngineEnd(p)

SpecEngine == Init /\ [][NextEngine]_vars

(***************************************************************************)
(* Properties.                                                             *)
(***************************************************************************)

\* no mutation is between its log_entry and its Index update
Quiescent == \A a \in Addrs : call[a] = NoCall

\* the (table, key) pairs that have a document in idx
IndexKeys(idx) ==
  UNION { { <<t, k>> : k \in DOMAIN idx[t] } : t \in DOMAIN idx }

\* the file holds the line log_entry writes for entry
InLines(ls, entry) ==
  LET e == entry_str(entry) IN
  \E i \in 1..Len(ls) : ls[i] \o <<"\n">> = e

HasRecord(file, entry) == InLines(lines(file), entry)

\* the step in which handle_connection reads a command of connection a
\* whose client is still there to read the response
ReadsCommand(a) ==
  /\ pc[a] = "read"
  /\ inbuf[a] # <<>>
  /\ inbuf'[a] = <<>>
  /\ cli[a] = "on"

\* the lower-case verb of a command text
IsDataCommand(text) == Verb(text) \in {Set, Get, Update, Delete, Query}

\* C1: whenever every mutation applied so far has completed, replaying the
\* log file into a fresh engine gives an Index identical to the Index of
\* the engine that applied the mutations.
C1_ReplayEqualsDirect ==
  Quiescent => replay_log(EmptyMap, wal) = index

\* C2, state part: every document visible in the Index was written by an add
\* or update record that is in the log file.
C2_Visible ==
  LET ls == lines(wal) IN
  \A tk \in IndexKeys(index) :
    \E op \in {OpAdd, OpUpdate} :
      InLines(ls, LogEntry(op, tk[1], tk[2],
                           Some(to_string(index[tk[1]][tk[2]]))))

\* C2, step part: when a step changes what get(table, key) returns, the
\* record of that change was in the log file before the step.
C2_Step ==
  index' # index =>
  \A tk \in IndexKeys(index) \cup IndexKeys(index') :
    LET old == get_row(index, tk[1], tk[2])
        new == get_row(index', tk[1], tk[2])
    IN  old # new =>
          IF new.some
          THEN \E op \in {OpAdd, OpUpdate} :
                 HasRecord(wal, LogEntry(op, tk[1], tk[2],
                                         Some(to_string(new.val))))
          ELSE HasRecord(wal, LogEntry(OpRemove, tk[1], tk[2], NoneStr))

\* C2: in every state, the intermediate states of add_row, update_row and
\* remove_row included, a mutation's effect is visible in the Index only if
\* its record has already been appended to the log file.
C2_WalBeforeIndex == []C2_Visible /\ [][C2_Step]_vars

\* C2 witness: a mutation is between its two steps: its record is in the
\* log file and the Index does not show it yet.
C2_Witness ==
  \E a \in Addrs :
    /\ pc[a] = "apply"
    /\ call[a].operation = OpAdd
    /\ HasRecord(wal, CallEntry(call[a]))
    /\ ~get_row(index, call[a].table, call[a].key).some

\* C3: once concurrent mutations have completed, every get returns what it
\* returns after a replay of the log file, that is, the Index updates took
\* effect in the order of the log records.
C3_IndexOrderIsWalOrder ==
  Quiescent =>
    \A t \in Tables, k \in Keys :
      get_row(index, t, k) = get_row(replay_log(EmptyMap, wal), t, k)

\* C4: a SET, GET, UPDATE, DELETE or QUERY read on a connection that is not
\* in the connection table is answered with the not-authenticated error,
\* starts no engine call and leaves the Index and the log file unchanged.
C4_Step ==
  \A a \in Addrs :
    ( /\ ReadsCommand(a)
      /\ IsDataCommand(inbuf[a])
      /\ a \notin DOMAIN authenticated_connections )
    => /\ recv'[a] = Msg("ERROR_NOT_AUTHENTICATED", <<>>)
       /\ index' = index
       /\ wal' = wal
       /\ call' = call

C4_AuthGate == [][C4_Step]_vars

\* C4 witness: a connection that never logged in has been refused.
C4_Witness ==
  \E a \in Addrs :
    /\ recv[a] = Msg("ERROR_NOT_AUTHENTICATED", <<>>)
    /\ ~loggedIn[a]
    /\ wal = <<>>

\* the handler of connection a is in its read loop
HandlerRuns(a) == pc[a] \in {"read", "apply"}

\* C5: a connection starts unauthenticated and is in the connection table
\* exactly when its own last LOGIN or LOGOUT was a LOGIN that succeeded.
C5_AuthIffOwnLogin ==
  \A a \in Addrs :
    HandlerRuns(a) =>
      (is_connection_authenticated(authenticated_connections, a)
         <=> loggedIn[a])

\* C6: when a connection handler has terminated, by whatever exit path, the
\* connection table has no entry for the identity of its connection.
C6_NoEntryAfterExit ==
  \A a \in Addrs :
    pc[a] = "done" =>
      ~is_connection_authenticated(authenticated_connections, a)

\* C7: after a connection that was authenticated has disconnected by EOF,
\* its peer address is not in the connection table, and a later connection
\* from that address is not in it either until it has logged in itself.
C7_FreshAfterEof ==
  \A a \in Addrs :
    (eofAuth[a] /\ ~loggedIn[a]) =>
      ~is_connection_authenticated(authenticated_connections, a)

\* C7 witness: the connection before this one was authenticated and ended
\* by EOF; this one, from the same address, has had a data command refused.
C7_Witness ==
  \E a \in Addrs :
    /\ eofAuth[a]
    /\ pc[a] = "read"
    /\ recv[a] = Msg("ERROR_NOT_AUTHENTICATED", <<>>)

\* C8: a connection that waits in the backlog is never kept waiting by the
\* handler of another connection: the accept loop is free to accept it.
C8_AcceptNotBlocked ==
  backlog # <<>> => handling = NoConn

\* C9: a GET on an authenticated connection returns the last effect this
\* connection wrote on that key (no other connection having written it
\* since): a document structurally equal to the one it SET or UPDATEd, or
\* the null sentinel after its DELETE.
C9_Step ==
  \A a \in Addrs :
    LET parts == splitn(trim(inbuf[a]), 4, " ") IN
    ( /\ ReadsCommand(a)
      /\ is_connection_authenticated(authenticated_connections, a)
      /\ to_lowercase(parts[1]) = Get
      /\ Len(parts) = 3
      /\ <<parts[2], parts[3]>> \in DOMAIN written[a] )
    => LET w == written[a][<<parts[2], parts[3]>>] IN
       IF w.some
       THEN /\ recv'[a].kind = "value"
            /\ from_str(recv'[a].body) = [ok |-> TRUE, val |-> w.val]
       ELSE recv'[a] = Msg("SUCCESS_NULL", <<>>)

C9_ReadYourWrites == [][C9_Step]_vars

\* C9 witness: a connection has overwritten a key and then read it back.
C9_Witness ==
  \E a \in Addrs :
    /\ WalRecords = 2
    /\ DOMAIN written[a] = { << <<"t">>, <<"k">> >> }
    /\ written[a][<< <<"t">>, <<"k">> >>] = Some(JStr(<<"|">>))
    /\ recv[a] = Msg("value", DocPipe \o <<"\n">>)

\* the fields of the lines of a file that have at least three fields
Records(file) ==
  LET ls == lines(file) IN
  [i \in 1..Len(ls) |-> split(ls[i], "|")]

\* the number of the last line of the file that is a record for (t, k);
\* 0 when there is none
LastRecordFor(file, t, k) ==
  LET rs == Records(file)
      S == { i \in 1..Len(rs) :
               Len(rs[i]) >= 3 /\ rs[i][2] = t /\ rs[i][3] = k }
  IN  IF S = {} THEN 0 ELSE CHOOSE i \in S : \A j \in S : j <= i

\* the tables and keys named by the records of a file
FileTables(file) ==
  { Records(file)[i][2] : i \in { j \in 1..Len(Records(file)) :
                                     Len(Records(file)[j]) >= 3 } }
FileKeys(file) ==
  { Records(file)[i][3] : i \in { j \in 1..Len(Records(file)) :
                                     Len(Records(file)[j]) >= 3 } }

\* C10: last write wins on replay: when the last record of the file for a
\* key is an add or update whose document parses to v, get returns v after
\* the replay, whatever the other records of the file are.
C10_LastWriteWins ==
  started =>
    \A t \in FileTables(wal), k \in FileKeys(wal) :
      LET i == LastRecordFor(wal, t, k)
          r == Records(wal)[i]
      IN  ( /\ i > 0
            /\ r[1] \in {OpAdd, OpUpdate}
            /\ Len(r) > 3
            /\ from_str(r[4]).ok )
          => get_row(index, t, k) = [some |-> TRUE, val |-> from_str(r[4]).val]

\* C10 witness: a file with add(t,k,1), a record of another table, then
\* update(t,k,2) has been replayed and get(t,k) returns 2.
C10_Witness ==
  /\ started
  /\ lines(wal) = << join(<<OpAdd, <<"t">>, <<"k">>, <<"1">>>>, BAR),
                     join(<<OpAdd, <<"u">>, <<"k">>, <<"2">>>>, BAR),
                     join(<<OpUpdate, <<"t">>, <<"k">>, <<"2">>>>, BAR) >>
  /\ get_row(index, <<"t">>, <<"k">>) = [some |-> TRUE, val |-> JPosInt(2)]

\* the conditions the properties probe a table with: a>0, a!=2, a=1 and
\* a contains x, as parse_single_condition types them
ProbeConditions ==
  { parse_single_condition(text).cond :
      text \in { <<"a", ">", "0">>, <<"a", "!", "=", "2">>,
                 <<"a", "=", "1">>,
                 <<"a", " ", "c", "o", "n", "t", "a", "i", "n", "s", " ",
                   "x">> } }

\* the keys a query result lists
ResultKeys(results) == { results[i][1] : i \in 1..Len(results) }

\* C11: tombstone on replay: when the last record of the file for a key is
\* a remove, get returns none after the replay and no query on the table
\* returns the key.
C11_Tombstone ==
  started =>
    \A t \in FileTables(wal), k \in FileKeys(wal) :
      LET i == LastRecordFor(wal, t, k) IN
      (i > 0 /\ Records(wal)[i][1] = OpRemove)
      => /\ ~get_row(index, t, k).some
         /\ \A c \in ProbeConditions, order \in IterationOrders(index) :
              k \notin ResultKeys(query_rows(index, t, <<c>>, order))

\* C11 witness: add(t,j,{"a":1}), add(t,k,{"a":1}), remove(t,k) has been
\* replayed: a query that matches both documents returns j and not k.
C11_Witness ==
  /\ started
  /\ lines(wal) = << join(<<OpAdd, <<"t">>, <<"j">>, DocObject>>, BAR),
                     join(<<OpAdd, <<"t">>, <<"k">>, DocObject>>, BAR),
                     join(<<OpRemove, <<"t">>, <<"k">>, <<>>>>, BAR) >>
  /\ ~get_row(index, <<"t">>, <<"k">>).some
  /\ ResultKeys(query_rows(index, <<"t">>,
                           <<parse_single_condition(<<"a", ">", "0">>).cond>>,
                           <<<<"j">>, <<"k">>>>)) = { <<"j">> }

\* a line replay skips: fewer than three fields, an unknown operation, or an
\* add or update whose document field is absent or does not parse
SkippedLine(line) ==
  LET parts == split(line, "|") IN
  \/ Len(parts) < 3
  \/ parts[1] \notin {OpAdd, OpUpdate, OpRemove}
  \/ /\ parts[1] \in {OpAdd, OpUpdate}
     /\ ~(Len(parts) > 3 /\ parts[4] # <<>> /\ from_str(parts[4]).ok)

\* the file with its skipped lines deleted
RECURSIVE KeptLines(_)
KeptLines(ls) ==
  IF ls = <<>> THEN <<>>
  ELSE IF SkippedLine(Head(ls)) THEN KeptLines(Tail(ls))
  ELSE Head(ls) \o <<"\n">> \o KeptLines(Tail(ls))

C13_Step ==
  \A a \in Addrs :
    LET parts == splitn(trim(inbuf[a]), 4, " ") IN
    ( /\ ReadsCommand(a)
      /\ a \in DOMAIN authenticated_connections
      /\ Verb(inbuf[a]) \in {Set, Update}
      /\ Len(parts) = 4
      /\ parts[4] = DocInvalid )
    => /\ recv'[a] = Msg("ERROR_INVALID_JSON", <<>>)
       /\ wal' = wal
       /\ index' = index
       /\ call' = call

C13_InvalidJsonNoMutation == [][C13_Step]_vars

\* C13 witness: a logged-in connection has been answered with the
\* invalid-JSON error after a document was stored; the document is still
\* the only record and the only entry.
C13_Witness ==
  \E a \in Addrs :
    /\ recv[a] = Msg("ERROR_INVALID_JSON", <<>>)
    /\ loggedIn[a]
    /\ WalRecords = 1
    /\ get_row(index, <<"t">>, <<"k">>).some

\* C14, step part: in the step in which the log append of a mutation of
\* connection a fails, and in every step after it, the Index is unchanged
\* and a is not sent OK.
C14_Step ==
  \A a \in Addrs :
    pc'[a] = "panicked" =>
      /\ index' = index
      /\ recv'[a].kind # "SUCCESS_OK"

\* C14: a mutation whose log append failed is not completed: the Index is
\* left as it was and the client is not sent the OK response.
C14_FailedAppendNotCompleted == [][C14_Step]_vars

\* C14 witness: the append of SET t k {"a":1} failed at the flush; the line
\* is in the file, the Index has no entry and the client has no response.
C14_Witness ==
  \E a \in Addrs :
    /\ pc[a] = "panicked"
    /\ HasRecord(wal, LogEntry(OpAdd, <<"t">>, <<"k">>, Some(DocObject)))
    /\ ~get_row(index, <<"t">>, <<"k">>).some
    /\ recv[a] = NoMsg
    /\ cli[a] = "on"

\* C15: an error response never closes the connection: when a command read
\* from a connected client is answered with an error, the handler stays in
\* its read loop, and the connection table, the Index and the log file are
\* what they were.
C15_Step ==
  \A a \in Addrs :
    (ReadsCommand(a) /\ recv'[a].kind \in ErrorKinds)
    => /\ pc'[a] = "read"
       /\ cli'[a] = "on"
       /\ authenticated_connections' = authenticated_connections
       /\ index' = index
       /\ wal' = wal

C15_ErrorsKeepConnection == [][C15_Step]_vars

\* C15 witness: a logged-in connection has been answered with the error of
\* an invalid query condition and its handler is reading the next command.
C15_Witness ==
  \E a \in Addrs :
    /\ recv[a] = Msg("query_error(invalid_condition)", <<"a">>)
    /\ loggedIn[a]
    /\ a \in DOMAIN authenticated_connections
    /\ pc[a] = "read"
    /\ cli[a] = "on"

\* C16, a read: the step that reads a command of a connected client either
\* writes its one response, or starts the mutation whose OK is still to be
\* written and writes nothing.
C16_Read ==
  \A a \in Addrs :
    (ReadsCommand(a) /\ trim(inbuf[a]) # <<>>)
    => \/ pc'[a] \in {"read", "done"} /\ recv'[a] # NoMsg
       \/ pc'[a] \in {"apply", "panicked"} /\ recv'[a] = NoMsg

\* C16, a response still to be written: nothing is read from the connection
\* until the handler has written it, and it is the OK of that mutation.
C16_Owed ==
  \A a \in Addrs :
    pc[a] = "apply"
    => /\ inbuf'[a] = inbuf[a]
       /\ (pc'[a] # "apply" /\ cli[a] = "on")
            => (pc'[a] = "read" /\ recv'[a] = Msg("SUCCESS_OK", <<>>))

\* C16: strictly request/response: every command read is answered by one
\* response, written before the next command is read.
C16_RequestResponse == [][C16_Read /\ C16_Owed]_vars

\* C16 witness: a connection has had a mutation and then a GET answered,
\* each by its own response.
C16_Witness ==
  \E a \in Addrs :
    /\ written[a] # EmptyMap
    /\ recv[a].kind = "value"
    /\ pc[a] = "read"


(***************************************************************************)
(* Byte stream framing.  A TCP connection carries bytes, not lines: the    *)
(* client may send a command before the previous one is answered, and one  *)
(* read (connection.rs:394-397) returns any non-empty prefix of what has   *)
(* arrived, at most the size of the buffer.  The first connection has      *)
(* logged in as admin.                                                     *)
(***************************************************************************)
MaxPipelined == 2

\* the command lines of the pipelining client: get t k, whoami
FramingLines ==
  { join(<<Get, <<"t">>, <<"k">>>>, SP), Whoami }

\* the server started on a log file (connection.rs:34-38), after Connect,
\* Accept, and the admin's login on the first connection (lines 96-111)
SessionOn(file) ==
  LET o == parse_command(join(<<Login, Admin, AdminPassword>>, SP),
                         FirstAddr, EmptyMap, DefaultUsers, EmptyMap, <<>>)
  IN  /\ wal = file
      /\ index = replay_log(EmptyMap, file)
      /\ started = TRUE
      /\ users = DefaultUsers
      /\ authenticated_connections = o.conns
      /\ backlog = <<>>
      /\ handling = FirstAddr
      /\ pc = [a \in Addrs |-> IF a = FirstAddr THEN "read" ELSE "none"]
      /\ call = [a \in Addrs |-> NoCall]
      /\ cli = [a \in Addrs |-> IF a = FirstAddr THEN "on" ELSE "off"]
      /\ inbuf = [a \in Addrs |-> <<>>]
      /\ recv = [a \in Addrs |-> IF a = FirstAddr THEN o.response ELSE NoMsg]
      /\ connects = 1
      /\ loggedIn = [a \in Addrs |-> a = FirstAddr]
      /\ eofAuth = [a \in Addrs |-> FALSE]
      /\ written = [a \in Addrs |-> EmptyMap]
      /\ asked = [a \in Addrs |-> <<>>]
      /\ index_lock = "free"
      /\ reader = NoReader
      /\ current_user = NoneStr
      /\ users_lock = "free"
      /\ terminal = NoTerminal

\* the same on a database without a log file: the state of Spec after
\* Connect, Accept and the login
InitSession == SessionOn(<<>>)

\* the client writes one more command line to its connection, whether or not
\* the previous ones were answered
FrameSend(a, line) ==
  /\ cli[a] = "on"
  /\ pc[a] = "read"
  /\ Cardinality({ i \in DOMAIN inbuf[a] : inbuf[a][i] = "\n" })
       < MaxPipelined
  /\ inbuf' = [inbuf EXCEPT ![a] = @ \o line \o <<"\n">>]
  /\ UNCHANGED <<engineVars, started, users, cliVars, authenticated_connections,
                 backlog, handling, pc, cli, recv, connects, histVars>>

\* connection.rs:397: read returns some of the bytes that have arrived
FrameRead(a) ==
  \E n \in 1..Len(inbuf[a]) : ReadBytes(a, n)

NextFraming ==
  \/ \E a \in Addrs, line \in FramingLines : FrameSend(a, line)
  \/ \E a \in Addrs : FrameRead(a)

SpecFraming == InitSession /\ [][NextFraming]_vars

\* the responses that the command lines of the client have in this state
LineResponses(a) ==
  { parse_command(line, a, authenticated_connections, users, index,
                  order).response :
      line \in FramingLines, order \in IterationOrders(index) }

\* C17: commands are framed by line terminators: every response that the
\* server writes to a connection is the response to one command line that
\* the client sent, executed as a command of its own.
C17_Step ==
  \A a \in Addrs :
    recv'[a] # recv[a] => recv'[a] \in LineResponses(a)

C17_LineFraming == [][C17_Step]_vars


\* the keys of table t whose document matches the conditions
MatchingKeys(idx, t, conditions) ==
  IF t \in DOMAIN idx
  THEN { k \in DOMAIN idx[t] : matches_conditions(idx[t][k], conditions) }
  ELSE {}

\* the line of a query response that lists one entry (messages.rs:129)
ItemLine(key, value) == key \o <<":", " ">> \o to_string(value)

\* C18: a query of an authenticated connection is answered with exactly the
\* entries of the table whose document matches the condition: no result
\* when there is none (in particular when the table does not exist), and
\* otherwise a count equal to the number of matching entries, followed by
\* one line per matching entry and no other line.
C18_Step ==
  \A a \in Addrs :
    LET parts == splitn(trim(inbuf[a]), 4, " ")
        c == parse_single_condition(join(SubSeq(parts, 3, Len(parts)), SP))
        keys == MatchingKeys(index, parts[2], <<c.cond>>)
        ls == lines(recv'[a].body)
    IN  ( /\ ReadsCommand(a)
          /\ a \in DOMAIN authenticated_connections
          /\ Verb(inbuf[a]) = Query
          /\ Len(parts) >= 3
          /\ c.ok )
        => IF keys = {}
           THEN recv'[a] = Msg("QUERY_NO_RESULTS", <<>>)
           ELSE /\ recv'[a].kind = "query_results"
                /\ ls[1] = NumToStr(Cardinality(keys))
                /\ Len(ls) = 1 + Cardinality(keys)
                /\ { ls[i] : i \in 2..Len(ls) }
                     = { ItemLine(k, index[parts[2]][k]) : k \in keys }

C18_QueryExact == [][C18_Step]_vars

\* C18 witness: a table holds a matching and a non-matching document, and
\* the query was answered with one result.
C18_Witness ==
  \E a \in Addrs, t \in DOMAIN index :
    /\ recv[a].kind = "query_results"
    /\ Len(lines(recv[a].body)) = 2
    /\ Cardinality(DOMAIN index[t]) = 2

\* C18 witness of the missing table: a query on an empty database was
\* answered with no result.
C18_WitnessNoTable ==
  \E a \in Addrs :
    /\ recv[a].kind = "QUERY_NO_RESULTS"
    /\ index = EmptyMap


(***************************************************************************)
(* Queries on documents of every JSON type.  The client of the first       *)
(* connection, logged in as admin, stores a document under key k of table  *)
(* t and queries the table.                                                *)
(***************************************************************************)
\* the documents {"a":1}, {"a":"x"}, {"a":[1]}, {"b":1}, {"a":{"b":1}},
\* {"a":true}, {"a":null}
MatchDocs ==
  { <<"{", "\"", "a", "\"", ":", "1", "}">>,
    <<"{", "\"", "a", "\"", ":", "\"", "x", "\"", "}">>,
    <<"{", "\"", "a", "\"", ":", "[", "1", "]", "}">>,
    <<"{", "\"", "b", "\"", ":", "1", "}">>,
    <<"{", "\"", "a", "\"", ":", "{", "\"", "b", "\"", ":", "1", "}", "}">>,
    <<"{", "\"", "a", "\"", ":", "t", "r", "u", "e", "}">>,
    <<"{", "\"", "a", "\"", ":", "n", "u", "l", "l", "}">> }

\* the conditions of the queries: every operator on the paths a.b and a,
\* equality with a literal of every type, every ordering of a with a
\* literal below, at and above 1
MatchConditions ==
  { f \o op \o v :
      f \in { <<"a", ".", "b">>, <<"a">> },
      op \in { <<"=">>, <<"!", "=">> },
      v \in { <<"1">> } }
  \cup { f \o op :
      f \in { <<"a", ".", "b">>, <<"a">> },
      op \in { <<">", "0">>, <<"<", "2">>, <<">", "=", "0">>,
               <<"<", "=", "2">>,
               <<" ", "c", "o", "n", "t", "a", "i", "n", "s", " ", "x">> } }
  \cup { <<"a">> \o op \o v :
      op \in { <<"=">>, <<"!", "=">> },
      v \in { <<"x">>, <<"t", "r", "u", "e">>, <<"n", "u", "l", "l">> } }
  \cup { <<"a">> \o op \o y :
      op \in { <<">">>, <<"<">>, <<">", "=">>, <<"<", "=">> },
      y \in { <<"0">>, <<"1">>, <<"2">> } }

MatchCommands ==
  { join(<<Set, <<"t">>, <<"k">>, d>>, SP) : d \in MatchDocs }
  \cup { join(<<Query, <<"t">>, c>>, SP) : c \in MatchConditions }
  \* conditions without an operator and with a malformed contains
  \cup { join(<<Query, <<"t">>, c>>, SP) :
           c \in { <<"a">>,
                   <<"a", "c", "o", "n", "t", "a", "i", "n", "s", "x">> } }

NextMatch ==
  \/ \E a \in Addrs, cmd \in MatchCommands : ClientSend(a, cmd)
  \/ \E a \in Addrs : ReadCommand(a)
  \/ \E a \in Addrs : Apply(a)

SpecMatch == InitSession /\ [][NextMatch]_vars

\* the field of the condition is unresolved in the document, or its value
\* has not the type the operator requires
Unmet(doc, cond) ==
  LET fv == get_nested_value(doc, cond.field_path) IN
  \/ ~fv.some
  \/ cond.operator = "Contains" /\ fv.val[1] # "str"
  \/ /\ cond.operator \in { "GreaterThan", "LessThan", "GreaterThanOrEqual",
                            "LessThanOrEqual" }
     /\ fv.val[1] # "num"

\* the lines of a query response that list an entry
ListedLines(msg) ==
  LET ls == lines(msg.body) IN { ls[i] : i \in 2..Len(ls) }

\* C19: for every operator, NotEquals included, a query whose field path is
\* unresolved in a document (a segment is missing or is applied to an
\* array, a string, a number), or whose operator does not fit the type of
\* the field (Contains on a non-string, an ordering on a non-number), is
\* answered without an error and without that document.
C19_Step ==
  \A a \in Addrs :
    LET parts == splitn(trim(inbuf[a]), 4, " ")
        c == parse_single_condition(join(SubSeq(parts, 3, Len(parts)), SP))
        t == parts[2]
    IN  ( /\ ReadsCommand(a)
          /\ a \in DOMAIN authenticated_connections
          /\ Verb(inbuf[a]) = Query
          /\ Len(parts) >= 3
          /\ c.ok
          /\ t \in DOMAIN index )
        => /\ recv'[a].kind \in { "QUERY_NO_RESULTS", "query_results" }
           /\ \A k \in DOMAIN index[t] :
                Unmet(index[t][k], c.cond)
                => ItemLine(k, index[t][k]) \notin ListedLines(recv'[a])

C19_UnmetIsFalse == [][C19_Step]_vars

\* C19 witness: the query a.b!=1 on the document {"a":[1]}, where a.b is
\* unresolved, was answered with no result.
C19_Witness ==
  \E a \in Addrs :
    /\ asked[a] = join(<<Query, <<"t">>, <<"a", ".", "b", "!", "=", "1">>>>, SP)
    /\ recv[a] = Msg("QUERY_NO_RESULTS", <<>>)
    /\ <<"t">> \in DOMAIN index
    /\ <<"k">> \in DOMAIN index[<<"t">>]
    /\ to_string(index[<<"t">>][<<"k">>])
         = <<"{", "\"", "a", "\"", ":", "[", "1", "]", "}">>


\* a literal of a condition and the document {"a": <that value>}, for an
\* integer, a string, a boolean and null
LiteralDocs ==
  { << <<"1">>, <<"{", "\"", "a", "\"", ":", "1", "}">> >>,
    << <<"x">>, <<"{", "\"", "a", "\"", ":", "\"", "x", "\"", "}">> >>,
    << <<"t", "r", "u", "e">>,
       <<"{", "\"", "a", "\"", ":", "t", "r", "u", "e", "}">> >>,
    << <<"n", "u", "l", "l">>,
       <<"{", "\"", "a", "\"", ":", "n", "u", "l", "l", "}">> >> }

\* C20: Equals and NotEquals compare by value for every JSON type: when the
\* document stored by SET under a key has the field a equal to the literal
\* (the integer 1, the string x, true, null), the query a=<literal> lists
\* the key and the query a!=<literal> does not.
C20_Step ==
  \A a \in Addrs, p \in LiteralDocs :
    LET t == <<"t">>
        k == <<"k">>
        stored == /\ t \in DOMAIN index
                  /\ k \in DOMAIN index[t]
                  /\ to_string(index[t][k]) = p[2]
        reads(op) == /\ ReadsCommand(a)
                     /\ a \in DOMAIN authenticated_connections
                     /\ trim(inbuf[a])
                          = join(<<Query, t, <<"a">> \o op \o p[1]>>, SP)
        listed == ItemLine(k, index[t][k]) \in ListedLines(recv'[a])
    IN  /\ (stored /\ reads(<<"=">>)) => listed
        /\ (stored /\ reads(<<"!", "=">>)) => ~listed

C20_EqualsByValue == [][C20_Step]_vars


\* C21: for a document whose field a is the number x and a condition with
\* the numeric literal y, the query a>y lists the document exactly when
\* x > y, and likewise a<y, a>=y, a<=y with <, >=, <=.
C21_Step ==
  \A a \in Addrs, y \in 0..2 :
    LET t == <<"t">>
        k == <<"k">>
        numeric == /\ t \in DOMAIN index
                   /\ k \in DOMAIN index[t]
                   /\ index[t][k][1] = "obj"
                   /\ <<"a">> \in DOMAIN index[t][k][2]
                   /\ index[t][k][2][<<"a">>][1] = "num"
        x == index[t][k][2][<<"a">>][3]
        reads(op) == /\ ReadsCommand(a)
                     /\ a \in DOMAIN authenticated_connections
                     /\ trim(inbuf[a])
                          = join(<<Query, t, <<"a">> \o op \o NumToStr(y)>>,
                                 SP)
        listed == ItemLine(k, index[t][k]) \in ListedLines(recv'[a])
    IN  /\ (numeric /\ reads(<<">">>)) => (listed <=> x > y)
        /\ (numeric /\ reads(<<"<">>)) => (listed <=> x < y)
        /\ (numeric /\ reads(<<">", "=">>)) => (listed <=> x >= y)
        /\ (numeric /\ reads(<<"<", "=">>)) => (listed <=> x <= y)

C21_Ordering == [][C21_Step]_vars

\* C21 witness: the query a>=1 on the document {"a":1} was answered with
\* the document.
C21_Witness ==
  \E a \in Addrs :
    /\ asked[a] = join(<<Query, <<"t">>, <<"a", ">", "=", "1">>>>, SP)
    /\ recv[a].kind = "query_results"
    /\ ListedLines(recv[a])
         = { ItemLine(<<"k">>, <<"obj", (<<"a">> :> <<"num", "PosInt", 1>>)>>) }


(***************************************************************************)
(* The engine called directly: add_row stores documents, query_rows is     *)
(* called with a vector of zero, one or two conditions (engine.rs:63-79).  *)
(***************************************************************************)
\* add_row of the documents {"a":1,"b":1}, {"a":1} and {"b":1}
QueryCalls ==
  { Call(OpAdd, <<"t">>, k, JObj(f)) :
      k \in Keys,
      f \in { (<<"a">> :> JPosInt(1)) @@ (<<"b">> :> JPosInt(1)),
              (<<"a">> :> JPosInt(1)),
              (<<"b">> :> JPosInt(1)) } }

\* the texts of the conditions of a query: none, a>0, b>0, or both
QueryTexts ==
  { <<>>, << <<"a", ">", "0">> >>, << <<"b", ">", "0">> >>,
    << <<"a", ">", "0">>, <<"b", ">", "0">> >> }

\* query_rows(table, conditions) called by p; the caller keeps the response
\* that connection.rs:238-256 builds from the result
QueryRows(p, table, texts) ==
  LET conditions ==
        [i \in 1..Len(texts) |-> parse_single_condition(texts[i]).cond]
  IN  /\ call[p] = NoCall
      /\ \E order \in IterationOrders(index) :
           recv' = [recv EXCEPT
                      ![p] = QueryResponse(
                               query_rows(index, table, conditions, order))]
      /\ asked' = [asked EXCEPT ![p] = join(texts, SP)]
      /\ UNCHANGED <<engineVars, started, users, cliVars, authenticated_connections,
                     backlog, handling, pc, cli, inbuf, connects, loggedIn,
                     eofAuth, written>>

NextQuery ==
  \/ \E p \in Addrs, c \in QueryCalls : EngineBegin(p, c)
  \/ \E p \in Addrs : EngineEnd(p)
  \/ \E texts \in QueryTexts : QueryRows(FirstAddr, <<"t">>, texts)

SpecQuery == Init /\ [][NextQuery]_vars

\* the document has the field of the condition f>0, with a positive number
HoldsIn(doc, text) ==
  /\ doc[1] = "obj"
  /\ <<text[1]>> \in DOMAIN doc[2]
  /\ doc[2][<<text[1]>>][1] = "num"
  /\ doc[2][<<text[1]>>][3] > 0

\* C22: a predicate of several conditions matches a document exactly when
\* every one of its conditions matches it, and a predicate without
\* conditions matches every document: query_rows lists exactly the entries
\* of the table for which each condition of the vector holds.
C22_Step ==
  \A p \in Addrs, texts \in QueryTexts :
    LET t == <<"t">> IN
    ( /\ wal' = wal
      /\ index' = index
      /\ asked'[p] = join(texts, SP)
      /\ recv'[p] # recv[p] \/ asked'[p] # asked[p]
      /\ t \in DOMAIN index )
    => ListedLines(recv'[p])
         = { ItemLine(k, index[t][k]) :
               k \in { j \in DOMAIN index[t] :
                         \A i \in 1..Len(texts) :
                           HoldsIn(index[t][j], texts[i]) } }

C22_Conjunction == [][C22_Step]_vars

\* C22 witness: the table holds {"a":1,"b":1} under k and {"a":1} under j,
\* and the query with the conditions a>0 and b>0 returned k alone.
C22_Witness ==
  \E p \in Addrs :
    LET both == JObj((<<"a">> :> JPosInt(1)) @@ (<<"b">> :> JPosInt(1))) IN
    /\ asked[p] = join(<< <<"a", ">", "0">>, <<"b", ">", "0">> >>, SP)
    /\ <<"t">> \in DOMAIN index
    /\ index[<<"t">>]
         = (<<"k">> :> both) @@ (<<"j">> :> JObj(<<"a">> :> JPosInt(1)))
    /\ ListedLines(recv[p]) = { ItemLine(<<"k">>, both) }

\* C22 witness of the empty predicate: a query without conditions returned
\* both documents of the table.
C22_WitnessEmpty ==
  \E p \in Addrs :
    /\ asked[p] = <<>>
    /\ recv[p].kind = "query_results"
    /\ Cardinality(ListedLines(recv[p])) = 2


\* the text of a condition has no recognized operator, or has the word
\* contains without being `<field> contains <value>`
Unparseable(text) ==
  LET word == <<"c", "o", "n", "t", "a", "i", "n", "s">> IN
  IF contains(text, word)
  THEN Len(split_str(text, <<" ">> \o word \o <<" ">>)) # 2
  ELSE \A i \in 1..Len(text) : text[i] \notin {"=", ">", "<"}

\* C23: a query whose condition text cannot be parsed is answered with one
\* query-level error: no entry of the table is listed, the Index and the
\* log file are unchanged, and the handler reads the next command.
C23_Step ==
  \A a \in Addrs :
    LET parts == splitn(trim(inbuf[a]), 4, " ") IN
    ( /\ ReadsCommand(a)
      /\ a \in DOMAIN authenticated_connections
      /\ Verb(inbuf[a]) = Query
      /\ Len(parts) >= 3
      /\ Unparseable(join(SubSeq(parts, 3, Len(parts)), SP)) )
    => /\ recv'[a].kind \in { "query_error(ERROR_INVALID_CONTAINS)",
                              "query_error(invalid_condition)" }
       /\ \A t \in DOMAIN index : \A k \in DOMAIN index[t] :
            \A i \in 1..Len(lines(recv'[a].body)) :
              lines(recv'[a].body)[i] # ItemLine(k, index[t][k])
       /\ index' = index
       /\ wal' = wal
       /\ pc'[a] = "read"

C23_QueryLevelError == [][C23_Step]_vars

\* C23 witness: the table holds a document and the query with the malformed
\* condition acontainsx was answered with the contains error.
C23_Witness ==
  \E a \in Addrs :
    /\ asked[a]
         = join(<<Query, <<"t">>,
                  <<"a", "c", "o", "n", "t", "a", "i", "n", "s", "x">>>>, SP)
    /\ recv[a].kind = "query_error(ERROR_INVALID_CONTAINS)"
    /\ <<"t">> \in DOMAIN index
    /\ <<"k">> \in DOMAIN index[<<"t">>]


\* the record of an accepted set, update or delete command: the operation
\* token, the table, the key and the serialized document
RecordOf(cmd) ==
  LET parts == splitn(trim(cmd), 4, " ")
      verb == Verb(cmd)
  IN  join(<< IF verb = Set THEN OpAdd
              ELSE IF verb = Update THEN OpUpdate ELSE OpRemove,
              parts[2], parts[3],
              IF verb = Delete THEN <<>>
              ELSE to_string(from_str(parts[4]).val) >>, BAR)

\* C24: the log file is append-only: in every step its earlier content is
\* a prefix of its later content; the file changes only in the step that
\* reads a SET, UPDATE or DELETE, by the one record of that command at its
\* end; every mutation that goes on to complete has appended exactly its
\* record; a GET, QUERY, LOGIN, LOGOUT, WHOAMI, HELP or rejected command
\* leaves the file as it is.
C24_Step ==
  LET added == SubSeq(wal', Len(wal) + 1, Len(wal')) IN
  /\ Len(wal) <= Len(wal')
  /\ SubSeq(wal', 1, Len(wal)) = wal
  /\ wal' # wal
       => \E a \in Addrs :
            /\ pc[a] = "read"
            /\ pc'[a] \in {"apply", "panicked"}
            /\ Verb(inbuf[a]) \in {Set, Update, Delete}
            /\ added = RecordOf(inbuf[a]) \o <<"\n">>
            /\ Len(lines(added)) = 1
  /\ \A a \in Addrs :
       (pc[a] = "read" /\ pc'[a] = "apply")
       => added = RecordOf(inbuf[a]) \o <<"\n">>

C24_AppendOnly == [][C24_Step]_vars

\* C24 witness: set t k {"a":1} and delete t k have completed, in this
\* order: the file holds their two records in this order, and a later read
\* has been answered.
C24_Witness ==
  \E a \in Addrs :
    /\ lines(wal) = << join(<<OpAdd, <<"t">>, <<"k">>, DocObject>>, BAR),
                       join(<<OpRemove, <<"t">>, <<"k">>, <<>>>>, BAR) >>
    /\ recv[a].kind = "SUCCESS_NULL"
    /\ pc[a] = "read"


\* C25: the delimiter never appears unescaped inside a field of a written
\* record: the line that an accepted SET, UPDATE or DELETE appends to the
\* log file splits on | into exactly the four fields that were logged: the
\* operation, the table, the key and the serialized document (empty for a
\* DELETE).
C25_Step ==
  \A a \in Addrs :
    (pc[a] = "read" /\ pc'[a] = "apply")
    => LET added == SubSeq(wal', Len(wal) + 1, Len(wal') - 1)
           c == call'[a]
       IN  split(added, "|")
             = << c.operation, c.table, c.key,
                  IF c.operation = OpRemove THEN <<>>
                  ELSE to_string(c.values) >>

C25_FieldsSplit == [][C25_Step]_vars


\* C26: get and query are pure reads: the step that handles a GET or a
\* QUERY, whether its table and key exist or not, leaves the log file and
\* the Index as they are, starts no mutation, and creates no table.
C26_Step ==
  \A a \in Addrs :
    ( /\ pc[a] = "read"
      /\ inbuf[a] # <<>>
      /\ inbuf'[a] = <<>>
      /\ Verb(inbuf[a]) \in {Get, Query} )
    => /\ wal' = wal
       /\ index' = index
       /\ DOMAIN index' = DOMAIN index
       /\ call' = call

C26_PureReads == [][C26_Step]_vars

\* C26 witness: on an empty database an authenticated GET of a key of a
\* table that does not exist was answered with NULL; the table still does
\* not exist.
C26_Witness ==
  \E a \in Addrs :
    /\ recv[a] = Msg("SUCCESS_NULL", <<>>)
    /\ a \in DOMAIN authenticated_connections
    /\ index = EmptyMap
    /\ wal = <<>>


(***************************************************************************)
(* Commands with a wrong number of arguments, sent on the first            *)
(* connection, which has logged in as admin.                               *)
(***************************************************************************)
\* every verb with one argument too few or too many, and the well-formed
\* login, set t k {"a":1} and delete t k
ArgCommands ==
  { join(<<Login, Admin>>, SP),
    join(<<Login, Admin, AdminPassword, <<"x">>>>, SP),
    join(<<Logout, <<"x">>>>, SP),
    join(<<Whoami, <<"x">>>>, SP),
    join(<<Help, <<"x">>>>, SP),
    join(<<Get, <<"t">>>>, SP),
    join(<<Get, <<"t">>, <<"k">>, <<"x">>>>, SP),
    join(<<Delete, <<"t">>>>, SP),
    join(<<Delete, <<"t">>, <<"k">>, <<"x">>>>, SP),
    join(<<Set, <<"t">>, <<"k">>>>, SP),
    join(<<Update, <<"t">>, <<"k">>>>, SP),
    join(<<Query, <<"t">>>>, SP),
    join(<<Login, Admin, AdminPassword>>, SP),
    join(<<Set, <<"t">>, <<"k">>, DocObject>>, SP),
    join(<<Delete, <<"t">>, <<"k">>>>, SP) }

NextArgs ==
  \/ \E a \in Addrs, cmd \in ArgCommands : ClientSend(a, cmd)
  \/ \E a \in Addrs : ReadCommand(a)
  \/ \E a \in Addrs : Apply(a)

SpecArgs == InitSession /\ [][NextArgs]_vars

\* the number of arguments of the command differs from the number its verb
\* requires; the document of SET and UPDATE is the rest of the line
WrongArgCount(cmd) ==
  LET words == split(trim(cmd), " ")
      parts == splitn(trim(cmd), 4, " ")
      verb == to_lowercase(words[1])
  IN  \/ verb = Login /\ Len(words) # 3
      \/ verb \in {Logout, Whoami, Help} /\ Len(words) # 1
      \/ verb \in {Get, Delete} /\ Len(words) # 3
      \/ verb \in {Set, Update} /\ Len(parts) # 4
      \/ verb = Query /\ Len(words) < 3

\* C27: a command whose number of arguments differs from the number its
\* verb requires is answered with an error text and changes neither the
\* connection table, nor the Index, nor the log file.
C27_Step ==
  \A a \in Addrs :
    (ReadsCommand(a) /\ WrongArgCount(inbuf[a]))
    => /\ recv'[a].kind \in ErrorKinds
       /\ authenticated_connections' = authenticated_connections
       /\ index' = index
       /\ wal' = wal

C27_ArgCountRejected == [][C27_Step]_vars


\* the Index with document v under key k of table t and every other entry
\* as before
Upserted(idx, t, k, v) ==
  [tt \in DOMAIN idx \cup {t} |->
     IF tt # t THEN idx[tt]
     ELSE [kk \in (IF t \in DOMAIN idx THEN DOMAIN idx[t] ELSE {}) \cup {k}
             |-> IF kk = k THEN v ELSE idx[t][kk]]]

\* C28: add and update are the same upsert: each appends the record with
\* its own operation token and the same table, key and document, and each
\* then puts the document under the key, whether the key existed or not,
\* leaving every other entry as it was; the Index after an add equals the
\* Index after an update of the same table, key and document.
C28_Step ==
  \A p \in Addrs :
    /\ ( /\ call[p] = NoCall
         /\ call'[p] # NoCall
         /\ call'[p].operation \in {OpAdd, OpUpdate} )
       => /\ wal' = wal \o join(<<call'[p].operation, call'[p].table,
                                  call'[p].key, to_string(call'[p].values)>>,
                                BAR) \o <<"\n">>
          /\ index' = index
    /\ ( /\ call[p] # NoCall
         /\ call[p].operation \in {OpAdd, OpUpdate}
         /\ call'[p] = NoCall )
       => /\ index' = Upserted(index, call[p].table, call[p].key,
                               call[p].values)
          /\ wal' = wal

C28_SameUpsert == [][C28_Step]_vars

\* C28 witness: update_row(t, k, 1) on the empty Index has created the key
\* and add_row(t, k, 2) has overwritten it.
C28_Witness ==
  /\ lines(wal) = << join(<<OpUpdate, <<"t">>, <<"k">>, <<"1">>>>, BAR),
                     join(<<OpAdd, <<"t">>, <<"k">>, <<"2">>>>, BAR) >>
  /\ \A p \in Addrs : call[p] = NoCall
  /\ index = (<<"t">> :> (<<"k">> :> JPosInt(2)))


(***************************************************************************)
(* Deletes on a database that holds documents.  The server has started on  *)
(* a log file with two adds; the first connection has logged in as admin.  *)
(***************************************************************************)
\* add|t|k|{"a":1} and add|t|j|{"a":1}
StoreFile ==
  join(<<OpAdd, <<"t">>, <<"k">>, DocObject>>, BAR) \o <<"\n">>
    \o join(<<OpAdd, <<"t">>, <<"j">>, DocObject>>, BAR) \o <<"\n">>

\* delete of a present key, of a key of a table that does not exist, the
\* set that stores a key again, and the gets that show the keys
RemoveCommands ==
  { join(<<Delete, <<"t">>, k>>, SP) : k \in Keys }
  \cup { join(<<Delete, <<"u">>, <<"k">>>>, SP),
         join(<<Set, <<"t">>, <<"k">>, DocObject>>, SP) }
  \cup { join(<<Get, <<"t">>, k>>, SP) : k \in Keys }

NextRemove ==
  \/ \E a \in Addrs, cmd \in RemoveCommands :
       ClientSendUpTo(a, cmd, Len(lines(StoreFile)) + MaxWal)
  \/ \E a \in Addrs : ReadCommand(a)
  \/ \E a \in Addrs : Apply(a)

SpecRemove == SessionOn(StoreFile) /\ [][NextRemove]_vars

\* C29: DELETE always reports success: an authenticated DELETE, whether its
\* key is present, absent, or of a table that does not exist, appends
\* exactly the one remove record to the log file and is answered with OK;
\* afterwards the key is absent, every other key of every table has the
\* document it had, and no table has been added or removed.
C29_Step ==
  \A a \in Addrs :
    LET parts == splitn(trim(inbuf[a]), 4, " ")
        c == call[a]
    IN  /\ ( /\ ReadsCommand(a)
             /\ a \in DOMAIN authenticated_connections
             /\ Verb(inbuf[a]) = Delete
             /\ Len(parts) = 3 )
           => \/ /\ pc'[a] = "apply"
                 /\ wal' = wal \o join(<<OpRemove, parts[2], parts[3], <<>>>>,
                                       BAR) \o <<"\n">>
                 /\ index' = index
              \/ pc'[a] = "panicked"
        /\ ( /\ pc[a] = "apply"
             /\ pc'[a] # "apply"
             /\ c.operation = OpRemove )
           => /\ cli[a] = "on" => recv'[a] = Msg("SUCCESS_OK", <<>>)
              /\ wal' = wal
              /\ DOMAIN index' = DOMAIN index
              /\ \A t \in DOMAIN index :
                   /\ DOMAIN index'[t]
                        = DOMAIN index[t] \ (IF t = c.table THEN {c.key}
                                             ELSE {})
                   /\ \A k \in DOMAIN index'[t] : index'[t][k] = index[t][k]

C29_DeleteSucceeds == [][C29_Step]_vars

\* C29 witness: the table held k and j; delete t k was answered with OK and
\* only j is left.
C29_Witness ==
  \E a \in Addrs :
    /\ recv[a] = Msg("SUCCESS_OK", <<>>)
    /\ lines(wal) = lines(StoreFile)
                      \o << join(<<OpRemove, <<"t">>, <<"k">>, <<>>>>, BAR) >>
    /\ DOMAIN index = { <<"t">> }
    /\ DOMAIN index[<<"t">>] = { <<"j">> }

\* C29 witness of the missing table: delete u k was answered with OK, its
\* record is in the file and the Index is the one of the start.
C29_WitnessNoTable ==
  \E a \in Addrs :
    /\ recv[a] = Msg("SUCCESS_OK", <<>>)
    /\ lines(wal) = lines(StoreFile)
                      \o << join(<<OpRemove, <<"u">>, <<"k">>, <<>>>>, BAR) >>
    /\ index = replay_log(EmptyMap, StoreFile)


\* C30: table lifecycle on replay: after the replay of a file, a table is
\* present in the Index only if the file holds an add or update record for
\* that table; remove records and records of an unknown operation create
\* no table.
C30_TableLifecycle ==
  started =>
    \A t \in DOMAIN index :
      \E i \in 1..Len(Records(wal)) :
        /\ Len(Records(wal)[i]) >= 3
        /\ Records(wal)[i][1] \in {OpAdd, OpUpdate}
        /\ Records(wal)[i][2] = t


(***************************************************************************)
(* The Index lock and file I/O.  replay_log step by step (engine.rs:       *)
(* 194-238): the file is opened, the Index write lock is taken, and the    *)
(* lines are then read from the file one by one inside the loop; the lock  *)
(* guard and the reader are dropped at the return.  After the start the    *)
(* mutations run as in SpecEngine: log_entry is awaited with the lock      *)
(* free, and the write lock is taken and dropped inside the second step.   *)
(***************************************************************************)
LockLines ==
  { join(<<OpAdd, <<"t">>, <<"k">>, <<"1">>>>, BAR),
    join(<<OpRemove, <<"t">>, <<"k">>, <<>>>>, BAR),
    join(<<OpAdd, <<"t">>>>, BAR) }

\* engine.rs:198-200: there is no log file
ReplayNoFile ==
  /\ ~started
  /\ ~reader.open
  /\ wal = <<>>
  /\ started' = TRUE
  /\ UNCHANGED <<wal, index, call, lockVars, users, cliVars,
                 authenticated_connections, netVars, histVars>>

\* engine.rs:202-203: File::open and BufReader::new
ReplayOpen ==
  /\ ~started
  /\ ~reader.open
  /\ reader' = [open |-> TRUE, rest |-> lines(wal)]
  /\ UNCHANGED <<wal, index, call, index_lock, started, users, cliVars,
                 authenticated_connections, netVars, histVars>>

\* engine.rs:205: let mut index = self.index.write().unwrap()
ReplayLock ==
  /\ ~started
  /\ reader.open
  /\ index_lock = "free"
  /\ index_lock' = "write"
  /\ UNCHANGED <<wal, index, call, reader, started, users, cliVars,
                 authenticated_connections, netVars, histVars>>

\* engine.rs:207-234: reader.lines() reads the next line from the file and
\* the body of the loop applies it
ReplayRead ==
  /\ index_lock = "write"
  /\ reader.open
  /\ reader.rest # <<>>
  /\ index' = ReplayLine(index, Head(reader.rest))
  /\ reader' = [reader EXCEPT !.rest = Tail(reader.rest)]
  /\ UNCHANGED <<wal, call, index_lock, started, users, cliVars,
                 authenticated_connections, netVars, histVars>>

\* engine.rs:208 and 237: the read fails (`line?`) or the file is at its
\* end; replay_log returns, the guard and the reader are dropped, and
\* TCPServer::new goes on (connection.rs:36-38)
ReplayReturn ==
  /\ index_lock = "write"
  /\ reader.open
  /\ index_lock' = "free"
  /\ reader' = NoReader
  /\ started' = TRUE
  /\ UNCHANGED <<wal, index, call, users, cliVars, authenticated_connections,
                 netVars, histVars>>

NextLock ==
  \/ \E line \in LockLines : ~reader.open /\ FileLine(line)
  \/ ReplayNoFile
  \/ ReplayOpen
  \/ ReplayLock
  \/ ReplayRead
  \/ ReplayReturn
  \/ \E p \in Addrs, c \in EngineCalls : started /\ EngineBegin(p, c)
  \/ \E p \in Addrs : started /\ index_lock = "free" /\ EngineEnd(p)

SpecLock == InitReplay /\ [][NextLock]_vars

\* a step that reads from the log file or writes to it
FileIO ==
  \/ wal' # wal
  \/ reader'.open /\ ~reader.open
  \/ reader'.open /\ reader.open /\ reader'.rest # reader.rest

\* C31: no engine operation holds the Index lock while doing I/O: in
\* add_row, update_row, remove_row and replay_log every read of the log file
\* and every write to it happens while the Index lock is free.
C31_NoLockAcrossIO == [][FileIO => index_lock = "free"]_vars


(***************************************************************************)
(* Queries whose condition is `F OP V`, for every operator of the list,    *)
(* with fields and values that hold no operator character: the field a or  *)
(* contains, the number 1 or the string "contains".  The client of the     *)
(* first connection, logged in as admin, stores a document under key k of  *)
(* table t and queries the table.                                          *)
(***************************************************************************)
ContainsWord == <<"c", "o", "n", "t", "a", "i", "n", "s">>

CondFields == { <<"a">>, ContainsWord }

CondValues == { <<"1">>, <<"\"">> \o ContainsWord \o <<"\"">> }

\* the documents {"a":1} and {"a":"contains"}
CondDocs ==
  { <<"{", "\"", "a", "\"", ":", "1", "}">>,
    <<"{", "\"", "a", "\"", ":", "\"">> \o ContainsWord \o <<"\"", "}">> }

CondCommands ==
  { join(<<Set, <<"t">>, <<"k">>, d>>, SP) : d \in CondDocs }
  \cup { join(<<Query, <<"t">>, f \o Operators[i].text \o v>>, SP) :
           f \in CondFields, i \in 1..Len(Operators), v \in CondValues }
  \* contains with a quoted and with a bare literal
  \cup { join(<<Query, <<"t">>, <<"a">>, ContainsWord, v>>, SP) :
           v \in { <<"\"", "c", "\"">>, <<"c">> } }

NextCond ==
  \/ \E a \in Addrs, cmd \in CondCommands : ClientSend(a, cmd)
  \/ \E a \in Addrs : ReadCommand(a)
  \/ \E a \in Addrs : Apply(a)

SpecCond == InitSession /\ [][NextCond]_vars

\* the response to a query of table t whose condition is c
Answers(msg, t, c) ==
  \E order \in IterationOrders(index) :
    msg = QueryResponse(query_rows(index, t, <<c>>, order))

\* C32: for a condition text F OP V in which OP is one of >=, <=, !=, =, >,
\* < and neither F nor V holds an operator character, the query is answered
\* as the condition with field F (trimmed), the operator OP itself and the
\* typed literal of V; a>=1, a<=1 and a!=1 are not split at =, > or <.
C32_Step ==
  \A a \in Addrs, f \in CondFields, i \in 1..Len(Operators),
     v \in CondValues :
    ( /\ ReadsCommand(a)
      /\ a \in DOMAIN authenticated_connections
      /\ trim(inbuf[a])
           = join(<<Query, <<"t">>, f \o Operators[i].text \o v>>, SP) )
    => Answers(recv'[a], <<"t">>,
               QueryCondition(trim(f), Operators[i].operator,
                              LiteralValue(trim(v))))

C32_OperatorScan == [][C32_Step]_vars


\* C33: a condition of the form field OP value, with OP one of the six
\* comparison operators, is parsed as OP whatever letters the field name or
\* the value hold: when the field or the value includes the word contains,
\* the query is not answered with the contains error and is answered as the
\* condition with that field, the operator OP and the typed literal.
C33_Step ==
  \A a \in Addrs, f \in CondFields, i \in 1..Len(Operators),
     v \in CondValues :
    ( /\ contains(f \o v, ContainsWord)
      /\ ReadsCommand(a)
      /\ a \in DOMAIN authenticated_connections
      /\ trim(inbuf[a])
           = join(<<Query, <<"t">>, f \o Operators[i].text \o v>>, SP) )
    => /\ recv'[a].kind # "query_error(ERROR_INVALID_CONTAINS)"
       /\ Answers(recv'[a], <<"t">>,
                  QueryCondition(f, Operators[i].operator, LiteralValue(v)))

C33_ContainsOnlyByForm == [][C33_Step]_vars


(***************************************************************************)
(* Sessions of logins, logouts and exits.  Clients connect, log in with    *)
(* good or bad credentials or a wrong number of arguments, log out, and    *)
(* send exit in lower, upper or mixed case.                                *)
(***************************************************************************)
AuthCommands ==
  { join(<<Login, Admin, AdminPassword>>, SP),
    \* a wrong password, an unknown user, two and four arguments
    join(<<Login, Admin, <<"x">>>>, SP),
    join(<<Login, <<"u">>, AdminPassword>>, SP),
    join(<<Login, Admin>>, SP),
    join(<<Login, Admin, AdminPassword, <<"x">>>>, SP),
    Logout,
    Whoami,
    Exit,
    <<"E", "X", "I", "T">>,
    <<"E", "x", "i", "T">> }

NextAuth ==
  \/ \E a \in Addrs : Connect(a)
  \/ \E a \in Addrs, cmd \in AuthCommands : ClientSend(a, cmd)
  \/ \E a \in Addrs : ClientClose(a)
  \/ Accept
  \/ \E a \in Addrs : ReadCommand(a)
  \/ \E a \in Addrs : ReadEof(a)
  \/ \E a \in Addrs : ReadError(a)

SpecAuth == Init /\ [][NextAuth]_vars

\* C34: when the handler reads exit, in any letter case and whether or not
\* the connection is authenticated, the connection's entry leaves the
\* connection table, the goodbye response is written, and the handler
\* returns; from then on nothing is executed for that connection: it gets
\* no response, starts no mutation and gets no entry in the table.
C34_Step ==
  \A a \in Addrs :
    /\ ( /\ ReadsCommand(a)
         /\ trim(inbuf[a]) \in { Exit, <<"E", "X", "I", "T">>,
                                 <<"E", "x", "i", "T">> } )
       => /\ a \notin DOMAIN authenticated_connections'
          /\ recv'[a] = Msg("SUCCESS_GOODBYE", <<>>)
          /\ pc'[a] = "done"
          /\ wal' = wal
          /\ index' = index
    /\ ( pc[a] = "done" /\ pc'[a] = "done" )
       => /\ recv'[a] = recv[a]
          /\ call'[a] = call[a]
          /\ (a \in DOMAIN authenticated_connections')
               = (a \in DOMAIN authenticated_connections)

C34_ExitEndsSession == [][C34_Step]_vars

\* C34 witness: a client has sent exit and read the goodbye response; its
\* handler has returned and its address is not in the connection table,
\* while the handler of a later connection runs.
C34_Witness ==
  \E a, b \in Addrs :
    /\ pc[a] = "done"
    /\ recv[a] = Msg("SUCCESS_GOODBYE", <<>>)
    /\ a \notin DOMAIN authenticated_connections
    /\ pc[b] = "read"
    /\ b \in DOMAIN authenticated_connections


\* C35: a LOGIN that fails, by an unknown user, a wrong password or a wrong
\* number of arguments, leaves the connection table as it was, so that a
\* connection authenticated as u stays authenticated as u and an
\* unauthenticated one stays unauthenticated; a LOGIN that succeeds binds
\* the connection to the user it names, whatever it was bound to before.
C35_Step ==
  \A a \in Addrs :
    LET parts == splitn(trim(inbuf[a]), 4, " ")
        failed == \/ Len(parts) # 3
                  \/ parts[2] \notin DOMAIN users
                  \/ ~verify_password(parts[3],
                                      users[parts[2]].password_hash)
    IN  ( ReadsCommand(a) /\ Verb(inbuf[a]) = Login )
        => IF failed
           THEN authenticated_connections' = authenticated_connections
           ELSE authenticated_connections'
                  = MapInsert(authenticated_connections, a, parts[2])

C35_LoginOutcome == [][C35_Step]_vars

\* C35 witness: a connection that is authenticated as admin has had a LOGIN
\* refused and is still bound to admin.
C35_Witness ==
  \E a \in Addrs :
    /\ pc[a] = "read"
    /\ loggedIn[a]
    /\ recv[a].kind \in {"ERROR_INVALID_CREDENTIALS", "ERROR_LOGIN_ARGS"}
    /\ a \in DOMAIN authenticated_connections
    /\ authenticated_connections[a] = Admin

\* C35 witness: a connection that was not authenticated has had a LOGIN
\* refused and is not in the connection table.
C35_WitnessUnauth ==
  \E a \in Addrs :
    /\ pc[a] = "read"
    /\ ~loggedIn[a]
    /\ recv[a].kind = "ERROR_INVALID_CREDENTIALS"
    /\ a \notin DOMAIN authenticated_connections


\* C36: a step of the handler of connection c, whether it executes LOGIN,
\* LOGOUT, exit or another command or ends the connection with the cleanup,
\* changes no entry of the connection table but the one keyed by c: every
\* other identity is in the table after the step exactly if it was before,
\* with the same user.
C36_Step ==
  \A c \in Addrs : \A b \in Addrs \ {c} :
    ( /\ pc[c] = "read"
      /\ inbuf'[c] # inbuf[c] \/ pc'[c] = "done" )
    => /\ (b \in DOMAIN authenticated_connections')
            = (b \in DOMAIN authenticated_connections)
       /\ b \in DOMAIN authenticated_connections
            => authenticated_connections'[b] = authenticated_connections[b]

C36_SessionIsolation == [][C36_Step]_vars

\* C36 witness: the table holds the entry of another identity while a
\* connection has logged in and then logged out, and holds it still.
C36_Witness ==
  \E c \in Addrs : \E b \in Addrs \ {c} :
    /\ pc[c] = "read"
    /\ recv[c].kind = "LOGOUT_SUCCESS"
    /\ c \notin DOMAIN authenticated_connections
    /\ b \in DOMAIN authenticated_connections


(***************************************************************************)
(* Replay called again.  After the start on a log file, replay_log is      *)
(* called once more on the same engine and the same file.                  *)
(***************************************************************************)
ReplayAgain ==
  /\ started
  /\ index' = replay_log(index, wal)
  /\ UNCHANGED <<wal, call, lockVars, started, users, cliVars,
                 authenticated_connections, netVars, histVars>>

NextReplayAgain ==
  \/ \E line \in FileLines : FileLine(line)
  \/ Startup
  \/ ReplayAgain

SpecReplayAgain == InitReplay /\ [][NextReplayAgain]_vars

\* C37: replay is idempotent: a second replay of the same log file into the
\* engine that has replayed it leaves the Index as it was, whatever the
\* file holds.
C37_ReplayIdempotent ==
  [][(started /\ started' /\ wal' = wal) => index' = index]_vars

\* C37 witness: the engine has replayed a file of three lines, one of them
\* a remove record, and its Index holds a document.
C37_Witness ==
  /\ started
  /\ Len(lines(wal)) = 3
  /\ \E i \in 1..Len(lines(wal)) : split(lines(wal)[i], "|")[1] = OpRemove
  /\ \E t \in DOMAIN index : index[t] # EmptyMap


(***************************************************************************)
(* UserManager's directory and current user (user_manager.rs:51-172).      *)
(* A call returns its result, the directory and the current user after     *)
(* it.  The result "Blocked" is a call that does not return: it asks for   *)
(* a lock on users that the same call holds.                               *)
(***************************************************************************)
\* UserRole::from_str
role_from_str(role) ==
  IF to_lowercase(role) = <<"a", "d", "m", "i", "n">>
  THEN [some |-> TRUE, val |-> "Admin"]
  ELSE IF to_lowercase(role) = <<"u", "s", "e", "r">>
  THEN [some |-> TRUE, val |-> "User"]
  ELSE [some |-> FALSE, val |-> "User"]

Returned(ret, usr, cur) == [ret |-> ret, users |-> usr, current_user |-> cur]

\* create_user (created_at, the time of the call, is left out)
create_user(cur, usr, username, password, role) ==
  IF username \in DOMAIN usr
  THEN Returned("User already exists", usr, cur)
  ELSE Returned("Ok",
                MapInsert(usr, username,
                          [password_hash |-> hash_password(password),
                           role |-> role]),
                cur)

\* authenticate: the read lock on users is held while current_user is
\* written
authenticate(cur, usr, username, password) ==
  IF username \in DOMAIN usr
  THEN IF verify_password(password, usr[username].password_hash)
       THEN Returned("Ok", usr, Some(username))
       ELSE Returned("Invalid credentials", usr, cur)
  ELSE Returned("User not found", usr, cur)

\* get_current_user: the read lock on current_user, then, when there is a
\* current user, the read lock on users
get_current_user(cur, usr) ==
  IF cur.some /\ cur.val \in DOMAIN usr
  THEN [some |-> TRUE, username |-> cur.val, role |-> usr[cur.val].role]
  ELSE [some |-> FALSE, username |-> <<>>, role |-> "User"]

is_admin(cur, usr) ==
  LET user == get_current_user(cur, usr) IN
  user.some /\ user.role = "Admin"

\* delete_user: is_admin returns before the write lock on users is taken;
\* under the write lock only current_user is locked (lines 129-133)
delete_user(cur, usr, username) ==
  IF ~is_admin(cur, usr)
  THEN Returned("Insufficient permissions", usr, cur)
  ELSE IF username \in DOMAIN usr
  THEN Returned("Ok", MapRemove(usr, username),
                IF cur = Some(username) THEN NoneStr ELSE cur)
  ELSE Returned("User not found", usr, cur)

\* A variant of update_user without the permission test of lines 143-147.
UpdateUserUnchecked(cur, usr, username, field, value) ==
  IF username \notin DOMAIN usr
  THEN Returned("User not found", usr, cur)
  ELSE IF field = <<"p", "a", "s", "s", "w", "o", "r", "d">>
  THEN Returned("Ok",
                MapInsert(usr, username,
                          [usr[username] EXCEPT
                             !.password_hash = hash_password(value)]),
                cur)
  ELSE Returned("Invalid field", usr, cur)

\* update_user.  Lines 143-147 run before `self.users.write()` of line 149.
\* Under that write lock, the role branch calls self.is_admin() (line 157),
\* whose get_current_user takes current_user.read() and, when there is a
\* current user, self.users.read() (line 101): the call then waits for a
\* lock it holds itself, and lines 160-164 are not reached.
update_user(cur, usr, username, field, value) ==
  IF /\ ~is_admin(cur, usr)
     /\ ~( get_current_user(cur, usr).some
           /\ get_current_user(cur, usr).username = username )
  THEN Returned("Insufficient permissions", usr, cur)
  ELSE IF username \notin DOMAIN usr
  THEN Returned("User not found", usr, cur)
  ELSE IF field = <<"p", "a", "s", "s", "w", "o", "r", "d">>
  THEN Returned("Ok",
                MapInsert(usr, username,
                          [usr[username] EXCEPT
                             !.password_hash = hash_password(value)]),
                cur)
  ELSE IF field = <<"r", "o", "l", "e">>
  THEN IF cur.some
       THEN Returned("Blocked", usr, cur)
       ELSE Returned("Only admins can change roles", usr, cur)
  ELSE Returned("Invalid field", usr, cur)

\* std::sync::RwLock::read called by the thread that holds the write lock
\* deadlocks or panics (the panic unwinds through the write guard and
\* poisons the lock); a call that returns leaves the lock free
LockAfter(ret) == IF ret = "Blocked" THEN {"write", "poisoned"} ELSE {"free"}


(***************************************************************************)
(* CLI user-management mode (main.rs:136-337).                             *)
(***************************************************************************)
\* str::split_whitespace, for texts whose only whitespace is the space
split_whitespace(s) == SelectSeq(split(s, " "), LAMBDA p : p # <<>>)

\* what a CLI command leaves: the response, the directory, the current user
\* and whether the call into UserManager returned
CliOut(response, r) ==
  [response |-> response, users |-> r.users,
   current_user |-> r.current_user, ret |-> r.ret]

\* parse_user_command.  The texts of the errors of delete_user and
\* update_user are told apart by err.contains("permission") and
\* err.contains("not found") (lines 285, 315-317).
parse_user_command(parts, cur, usr) ==
  LET same == Returned("Ok", usr, cur)
      user_cmd == to_lowercase(parts[1])
  IN
  IF parts = <<>>
  THEN CliOut(Msg("ERROR_INVALID_USER_COMMAND", <<>>), same)
  ELSE
  CASE user_cmd = <<"c", "r", "e", "a", "t", "e">> ->
         IF Len(parts) # 4
         THEN CliOut(Msg("user_create_args", NumToStr(Len(parts) - 1)), same)
         ELSE IF role_from_str(parts[4]).some
         THEN LET r == create_user(cur, usr, parts[2], parts[3],
                                   role_from_str(parts[4]).val)
              IN  IF r.ret = "Ok"
                  THEN CliOut(Msg("USER_CREATED", <<>>), r)
                  ELSE CliOut(Msg("ERROR_USER_EXISTS", <<>>), r)
         ELSE CliOut(Msg("ERROR_INVALID_ROLE", <<>>), same)
    [] user_cmd = <<"l", "i", "s", "t">> ->
         IF ~is_admin(cur, usr)
         THEN CliOut(Msg("ERROR_INSUFFICIENT_PERMISSIONS", <<>>), same)
         ELSE IF usr = EmptyMap
         THEN CliOut(Msg("No users found", <<>>), same)
         ELSE \* the header with the count; the items follow in the order
              \* of HashMap::values
              CliOut(Msg("user_list", NumToStr(Cardinality(DOMAIN usr))),
                     same)
    [] user_cmd = Delete ->
         IF Len(parts) # 2
         THEN CliOut(Msg("ERROR_USER_DELETE_ARGS", <<>>), same)
         ELSE LET r == delete_user(cur, usr, parts[2]) IN
              IF r.ret = "Ok" THEN CliOut(Msg("USER_DELETED", <<>>), r)
              ELSE IF r.ret = "Insufficient permissions"
              THEN CliOut(Msg("ERROR_INSUFFICIENT_PERMISSIONS", <<>>), r)
              ELSE CliOut(Msg("ERROR_USER_NOT_FOUND", <<>>), r)
    [] user_cmd = Update ->
         IF Len(parts) # 4
         THEN CliOut(Msg("ERROR_USER_UPDATE_ARGS", <<>>), same)
         ELSE IF /\ parts[3] # <<"p", "a", "s", "s", "w", "o", "r", "d">>
                 /\ parts[3] # <<"r", "o", "l", "e">>
         THEN CliOut(Msg("ERROR_INVALID_UPDATE_FIELD", <<>>), same)
         ELSE IF /\ parts[3] = <<"r", "o", "l", "e">>
                 /\ ~role_from_str(parts[4]).some
         THEN CliOut(Msg("ERROR_INVALID_ROLE", <<>>), same)
         ELSE LET r == update_user(cur, usr, parts[2], parts[3], parts[4])
              IN  IF r.ret = "Ok" THEN CliOut(Msg("USER_UPDATED", <<>>), r)
                  ELSE IF r.ret = "Insufficient permissions"
                  THEN CliOut(Msg("ERROR_INSUFFICIENT_PERMISSIONS", <<>>), r)
                  ELSE IF r.ret = "User not found"
                  THEN CliOut(Msg("ERROR_USER_NOT_FOUND", <<>>), r)
                  ELSE IF r.ret = "Blocked" THEN CliOut(NoMsg, r)
                  ELSE CliOut(Msg("error", <<r.ret>>), r)
    [] OTHER -> CliOut(Msg("invalid_user_command", user_cmd), same)

\* parse_cli_command
parse_cli_command(command, cur, usr) ==
  LET parts == split_whitespace(trim(command))
      same == Returned("Ok", usr, cur)
  IN  IF parts = <<>> THEN CliOut(Msg("ERROR_EMPTY_COMMAND", <<>>), same)
      ELSE IF to_lowercase(parts[1]) = <<"u", "s", "e", "r">>
      THEN parse_user_command(Tail(parts), cur, usr)
      ELSE IF to_lowercase(parts[1]) = Help
      THEN CliOut(Msg("cli_help", <<>>), same)
      ELSE CliOut(Msg("cli_unknown_command", to_lowercase(parts[1])), same)

\* start_cli_mode, lines 153-174: one turn of the loop, from read_line to
\* the print of the response.  The loop is left after exit; it does not go
\* on when a call into UserManager has not returned.
CliLine(line) ==
  /\ users_lock = "free"
  /\ terminal.output.kind # "SUCCESS_GOODBYE"
  /\ LET command == trim(line) IN
     IF command = <<>>
     THEN /\ terminal' = [input |-> line, output |-> NoMsg]
          /\ UNCHANGED <<users, current_user, users_lock>>
     ELSE IF to_lowercase(command) = Exit
     THEN /\ terminal' = [input |-> line,
                          output |-> Msg("SUCCESS_GOODBYE", <<>>)]
          /\ UNCHANGED <<users, current_user, users_lock>>
     ELSE LET o == parse_cli_command(command, current_user, users) IN
          /\ terminal' = [input |-> line, output |-> o.response]
          /\ users' = o.users
          /\ current_user' = o.current_user
          /\ users_lock' \in LockAfter(o.ret)
  /\ UNCHANGED <<engineVars, started, authenticated_connections, netVars,
                 histVars>>

UserW == <<"u", "s", "e", "r">>
CreateW == <<"c", "r", "e", "a", "t", "e">>
RoleW == <<"r", "o", "l", "e">>
PasswordW == <<"p", "a", "s", "s", "w", "o", "r", "d">>
CliNames == { Admin, <<"u">>, <<"v">> }

\* the lines typed at the prompt
CliLines ==
  { join(<<UserW, CreateW, n, <<"p">>, r>>, SP) :
      n \in CliNames, r \in { UserW, Admin, <<"x">> } }
  \cup { join(<<UserW, Delete, n>>, SP) : n \in CliNames }
  \cup { join(<<UserW, Update, n, f, v>>, SP) :
           n \in { Admin, <<"u">> },
           f \in { RoleW, PasswordW },
           v \in { UserW, <<"x">> } }
  \cup { join(<<UserW, <<"l", "i", "s", "t">>>>, SP),
         join(<<UserW, CreateW, <<"u">>, <<"p">>>>, SP),
         join(<<UserW, Delete>>, SP),
         join(<<UserW, Update, Admin, RoleW>>, SP),
         join(<<UserW, Update, Admin, <<"n", "a", "m", "e">>, <<"x">>>>, SP),
         join(<<UserW, Login, Admin, AdminPassword>>, SP),
         UserW,
         Help,
         <<"x">>,
         <<" ">>,
         Exit }

NextCli == \E line \in CliLines : CliLine(line)

\* main.rs:100-105: UserManager::new, ensure_default_admin, start_cli_mode
SpecCli == Init /\ [][NextCli]_vars


\* the words of a line typed at the prompt
Words(line) == split_whitespace(trim(line))

\* the line is the command `user <w> ...`
IsUserCommand(line, w) ==
  /\ Len(Words(line)) >= 2
  /\ to_lowercase(Words(line)[1]) = UserW
  /\ to_lowercase(Words(line)[2]) = w

\* the line is user list, user delete or user update
AdminOnly(line) ==
  \/ IsUserCommand(line, <<"l", "i", "s", "t">>)
  \/ IsUserCommand(line, Delete)
  \/ IsUserCommand(line, Update)

\* the arguments of the line pass the tests of parse_user_command: one
\* argument for delete; three for update, with the field password or role
\* and, for role, a role that exists
ValidArguments(line) ==
  /\ IsUserCommand(line, Delete) => Len(Words(line)) = 3
  /\ IsUserCommand(line, Update)
       => /\ Len(Words(line)) = 5
          /\ Words(line)[4] \in {PasswordW, RoleW}
          /\ Words(line)[4] = RoleW => role_from_str(Words(line)[5]).some

\* in this step of the CLI no user is current, the directory changes only
\* by a create of a name that is not in it, and user list, user delete and
\* user update (whatever their arguments, or only with arguments that pass
\* the tests) are answered with the permission error and leave the
\* directory as it was
CliStep(whatever) ==
  LET line == terminal'.input IN
  /\ current_user = NoneStr /\ current_user' = NoneStr
  /\ ( AdminOnly(line) /\ (whatever \/ ValidArguments(line)) )
       => /\ terminal'.output = Msg("ERROR_INSUFFICIENT_PERMISSIONS", <<>>)
          /\ users' = users
  /\ ( AdminOnly(line) /\ ~(whatever \/ ValidArguments(line)) )
       => /\ terminal'.output.kind
               \in { "ERROR_USER_DELETE_ARGS", "ERROR_USER_UPDATE_ARGS",
                     "ERROR_INVALID_UPDATE_FIELD", "ERROR_INVALID_ROLE" }
          /\ users' = users
  /\ users' # users
       => /\ IsUserCommand(line, CreateW)
          /\ Words(line)[3] \notin DOMAIN users
          /\ terminal'.output = Msg("USER_CREATED", <<>>)
  /\ ( /\ IsUserCommand(line, CreateW)
       /\ Len(Words(line)) >= 3
       /\ Words(line)[3] \in DOMAIN users )
       => /\ users' = users
          /\ terminal'.output # Msg("USER_CREATED", <<>>)

Authenticate(username, password) ==
  /\ users_lock = "free"
  /\ terminal.output.kind # "SUCCESS_GOODBYE"
  /\ LET r == authenticate(current_user, users, username, password) IN
     /\ current_user' = r.current_user
     /\ users' = r.users
  /\ UNCHANGED <<engineVars, started, authenticated_connections, netVars,
                 histVars, users_lock, terminal>>

NextUserManager ==
  \/ \E line \in CliLines : CliLine(line)
  \/ \E username \in {Admin, <<"u">>}, password \in {AdminPassword, <<"p">>} :
       Authenticate(username, password)

SpecUserManager == Init /\ [][NextUserManager]_vars

\* C39: update_user(username, "role", value), called while the current user
\* is an admin, for a username of the directory and a valid role, returns
\* Ok with the role of that user set to the given role, and holds no lock
\* on users after it: the command user update <username> role <value> is
\* answered with the success message.
C39_Step ==
  LET line == terminal'.input
      words == Words(line)
  IN  ( /\ users_lock = "free"
        /\ terminal' # terminal \/ users_lock' # "free"
        /\ is_admin(current_user, users)
        /\ IsUserCommand(line, Update)
        /\ Len(words) = 5
        /\ words[4] = RoleW
        /\ role_from_str(words[5]).some
        /\ words[3] \in DOMAIN users )
      => /\ terminal'.output = Msg("USER_UPDATED", <<>>)
         /\ users' = MapInsert(users, words[3],
                               [users[words[3]] EXCEPT
                                  !.role = role_from_str(words[5]).val])
         /\ users_lock' = "free"

C39_UpdateRoleReturns == [][C39_Step]_vars

=============================================================================
